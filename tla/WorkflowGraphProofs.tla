-------------------------- MODULE WorkflowGraphProofs --------------------------
(* What the graph algorithms compute, for every list of nodes and of edges.   *)
(* Their loops are iterations of a function on the loop's states; what n       *)
(* rounds of one do is shown by induction on n, from the well-foundedness of   *)
(* the naturals.                                                               *)
EXTENDS WorkflowGraph, WellFoundedInduction, FiniteSetTheorems, TLAPS

(* Induction, said of sets.                                                 *)

Below == OpToRel(<, Nat)

LEMMA BelowIs == \A m, n \in Nat : m < n => <<m, n>> \in Below
  BY DEF Below, OpToRel

LEMMA LeastNatural ==
  ASSUME NEW T \in SUBSET Nat, T # {}
  PROVE  \E m \in T : \A k \in T : m <= k
<1>1. IsWellFoundedOn(Below, Nat)
  BY NatLessThanWellFounded DEF Below
<1>2. PICK m \in T : \A k \in T : ~(<<k, m>> \in Below)
  BY <1>1, WFMin
<1>3. \A k \in T : k \in Nat /\ m \in Nat
  OBVIOUS
<1>4. \A k \in T : ~(k < m)
  BY <1>2, <1>3, BelowIs
<1>5. \A k \in T : m <= k
  BY <1>3, <1>4
<1> QED BY <1>5

LEMMA SetInduction ==
  ASSUME NEW T \in SUBSET Nat, 0 \in T, \A n \in T : n + 1 \in T
  PROVE  T = Nat
<1> SUFFICES ASSUME Nat \ T # {} PROVE FALSE
  OBVIOUS
<1>1. PICK m \in Nat \ T : \A k \in Nat \ T : m <= k
  BY LeastNatural
<1>2. m # 0 /\ m - 1 \in Nat
  BY <1>1
<1>3. m - 1 \in T
  BY <1>1, <1>2
<1> QED BY <1>1, <1>2, <1>3

-----------------------------------------------------------------------------
(* Loops.                                                                   *)

\* A function on S can be iterated from any element of S.
LEMMA RoundsExist ==
  ASSUME NEW S, NEW a \in S, NEW body \in [S -> S]
  PROVE  \E f \in [Nat -> S] : f[0] = a /\ \A n \in Nat : f[n + 1] = body[f[n]]
<1> DEFINE Until(n, f) == /\ f \in [0 .. n -> S] /\ f[0] = a
                          /\ \A k \in 0 .. n : k < n => f[k + 1] = body[f[k]]
           T == {n \in Nat : \E f \in [0 .. n -> S] : Until(n, f)}
<1>1. T = Nat
  <2>1. 0 \in T
    <3>1. Until(0, [k \in 0 .. 0 |-> a])
      OBVIOUS
    <3> QED BY <3>1
  <2>2. ASSUME NEW n \in T PROVE n + 1 \in T
    <3>1. PICK f \in [0 .. n -> S] : Until(n, f)
      OBVIOUS
    <3> DEFINE g == [k \in 0 .. n + 1 |-> IF k = n + 1 THEN body[f[n]] ELSE f[k]]
    <3>2. n \in Nat /\ g \in [0 .. n + 1 -> S]
      BY <3>1
    <3>3. \A k \in 0 .. n + 1 : k < n + 1 => g[k + 1] = body[g[k]]
      BY <3>1, <3>2
    <3>4. Until(n + 1, g)
      BY <3>1, <3>2, <3>3
    <3>5. n + 1 \in Nat /\ \E f_1 \in [0 .. n + 1 -> S] : Until(n + 1, f_1)
      <4> HIDE DEF Until, g
      <4> QED BY <3>2, <3>4
    <3> QED BY <3>5
  <2>3. T \in SUBSET Nat
    OBVIOUS
  <2> HIDE DEF T
  <2> QED BY <2>1, <2>2, <2>3, SetInduction
<1>2. ASSUME NEW n \in Nat, NEW m \in Nat, n <= m, NEW f, NEW g, Until(n, f), Until(m, g)
      PROVE  \A k \in 0 .. n : f[k] = g[k]
  <2> DEFINE U == {k \in Nat : k <= n => f[k] = g[k]}
  <2>1. 0 \in U
    BY <1>2
  <2>2. \A k \in U : k + 1 \in U
    BY <1>2
  <2>3. U \in SUBSET Nat
    OBVIOUS
  <2>4. U = Nat
    <3> HIDE DEF U
    <3> QED BY <2>1, <2>2, <2>3, SetInduction
  <2> QED BY <1>2, <2>4
<1>3. \A n \in Nat : \E f : Until(n, f)
  BY <1>1
<1> DEFINE F == [n \in Nat |-> CHOOSE f : Until(n, f)]
           h == [n \in Nat |-> F[n][n]]
<1>4. \A n \in Nat : Until(n, F[n]) /\ h[n] = F[n][n]
  <2> HIDE DEF Until
  <2> QED BY <1>3
<1> HIDE DEF F
<1>5. h \in [Nat -> S]
  BY <1>4
<1>6. h[0] = a
  BY <1>4
<1>7. ASSUME NEW n \in Nat PROVE h[n + 1] = body[h[n]]
  <2>1. n + 1 \in Nat /\ Until(n, F[n]) /\ Until(n + 1, F[n + 1])
    <3> HIDE DEF Until
    <3> QED BY <1>4
  <2>2. F[n + 1][n] = F[n][n]
    <3>1. n \in Nat /\ n + 1 \in Nat /\ n <= n + 1 /\ n \in 0 .. n
      OBVIOUS
    <3> HIDE DEF Until
    <3> QED BY <3>1, <2>1, <1>2
  <2>3. F[n + 1][n + 1] = body[F[n + 1][n]]
    BY <2>1
  <2> QED BY <1>4, <2>2, <2>3
<1> QED
  <2> HIDE DEF h
  <2> QED BY <1>5, <1>6, <1>7

\* So the rounds of a loop are what its recursive definition says.
LEMMA RoundsAre ==
  ASSUME NEW S, NEW start \in S, NEW body \in [S -> S]
  PROVE  /\ Rounds(start, body) \in [Nat -> S]
         /\ Rounds(start, body)[0] = start
         /\ \A n \in Nat : Rounds(start, body)[n + 1] = body[Rounds(start, body)[n]]
<1> DEFINE F == Rounds(start, body)
<1>1. \E f : f = [n \in Nat |-> IF n = 0 THEN start ELSE body[f[n - 1]]]
  <2>1. PICK f \in [Nat -> S] : f[0] = start /\ \A n \in Nat : f[n + 1] = body[f[n]]
    BY RoundsExist
  <2>2. \A n \in Nat : f[n] = IF n = 0 THEN start ELSE body[f[n - 1]]
    <3> SUFFICES ASSUME NEW n \in Nat, n # 0 PROVE f[n] = body[f[n - 1]]
      BY <2>1
    <3>1. n - 1 \in Nat /\ (n - 1) + 1 = n
      OBVIOUS
    <3> QED BY <2>1, <3>1
  <2>3. f = [n \in Nat |-> IF n = 0 THEN start ELSE body[f[n - 1]]]
    BY <2>1, <2>2
  <2> QED BY <2>3
<1>2. F = [n \in Nat |-> IF n = 0 THEN start ELSE body[F[n - 1]]]
  BY <1>1, Zenon DEF Rounds
<1>3. F = Rounds(start, body)
  OBVIOUS
<1> HIDE DEF F
<1>4. F[0] = start
  BY <1>2
<1>5. ASSUME NEW n \in Nat PROVE F[n + 1] = body[F[n]]
  <2>1. n + 1 \in Nat /\ n + 1 # 0 /\ (n + 1) - 1 = n
    OBVIOUS
  <2> QED BY <1>2, <2>1
<1>6. F \in [Nat -> S]
  <2> DEFINE T == {n \in Nat : F[n] \in S}
  <2>1. 0 \in T /\ T \in SUBSET Nat /\ \A n \in T : n + 1 \in T
    BY <1>4, <1>5
  <2>2. T = Nat
    <3> HIDE DEF T
    <3> QED BY <2>1, SetInduction
  <2> QED BY <1>2, <2>2
<1> QED BY <1>3, <1>4, <1>5, <1>6

-----------------------------------------------------------------------------
(* Counting edges.                                                          *)

Lists(nodes, edges) == \E V, W : nodes \in Seq(V) /\ edges \in Seq(W)

LEMMA ListsAre ==
  ASSUME NEW nodes, NEW edges, Lists(nodes, edges)
  PROVE  /\ Len(nodes) \in Nat /\ DOMAIN nodes = 1 .. Len(nodes)
         /\ Len(edges) \in Nat /\ DOMAIN edges = 1 .. Len(edges)
  BY DEF Lists

LEMMA UpTo == \A n \in Nat : IsFiniteSet(1 .. n) /\ Cardinality(1 .. n) = n
<1> TAKE n \in Nat
<1>1. /\ IsFiniteSet(1 .. n)
      /\ Cardinality(1 .. n) = IF 1 > n THEN 0 ELSE n - 1 + 1
  BY FS_Interval
<1> QED BY <1>1

LEMMA DisjointUnion ==
  ASSUME NEW A, NEW B, IsFiniteSet(A), IsFiniteSet(B), A \cap B = {}
  PROVE  /\ IsFiniteSet(A \cup B)
         /\ Cardinality(A) \in Nat /\ Cardinality(B) \in Nat
         /\ Cardinality(A \cup B) = Cardinality(A) + Cardinality(B)
<1>1. /\ IsFiniteSet(A \cup B)
      /\ Cardinality(A \cup B)
           = Cardinality(A) + Cardinality(B) - Cardinality(A \cap B)
  BY FS_Union
<1>2. Cardinality(A) \in Nat /\ Cardinality(B) \in Nat /\ Cardinality(A \cap B) = 0
  BY FS_CardinalityType, FS_EmptySet
<1> QED BY <1>1, <1>2

\* No list has more ids than nodes, and as many only if no two share one.
LEMMA IdsFinite ==
  ASSUME NEW nodes, NEW edges, Lists(nodes, edges)
  PROVE  /\ IsFiniteSet(Ids(nodes)) /\ Cardinality(Ids(nodes)) \in Nat
         /\ Cardinality(Ids(nodes)) <= Len(nodes)
         /\ Cardinality(Ids(nodes)) = Len(nodes) =>
              \A i, j \in DOMAIN nodes : nodes[i].id = nodes[j].id => i = j
<1> DEFINE f == [i \in 1 .. Len(nodes) |-> nodes[i].id]
<1>1. f \in Surjection(1 .. Len(nodes), Ids(nodes))
  BY ListsAre DEF Surjection, Ids
<1>2. IsFiniteSet(1 .. Len(nodes)) /\ Cardinality(1 .. Len(nodes)) = Len(nodes)
  BY ListsAre, UpTo
<1>3. /\ IsFiniteSet(Ids(nodes)) /\ Cardinality(Ids(nodes)) <= Len(nodes)
      /\ Cardinality(Ids(nodes)) = Len(nodes) => f \in Injection(1 .. Len(nodes), Ids(nodes))
  <2> HIDE DEF f
  <2> QED BY <1>1, <1>2, FS_Surjection
<1>4. Cardinality(Ids(nodes)) \in Nat
  BY <1>3, FS_CardinalityType
<1>5. f \in Injection(1 .. Len(nodes), Ids(nodes)) =>
        \A i, j \in DOMAIN nodes : nodes[i].id = nodes[j].id => i = j
  BY ListsAre DEF Injection, IsInjective
<1> QED BY <1>3, <1>4, <1>5

LEMMA LinkedFinite ==
  ASSUME NEW nodes, NEW edges, Lists(nodes, edges), NEW K \in SUBSET Linked(edges)
  PROVE  IsFiniteSet(K) /\ Cardinality(K) \in Nat /\ (Cardinality(K) = 0 <=> K = {})
<1>1. IsFiniteSet(1 .. Len(edges))
  BY ListsAre, UpTo
<1>2. K \in SUBSET (1 .. Len(edges))
  BY ListsAre DEF Linked
<1>3. IsFiniteSet(K)
  BY <1>1, <1>2, FS_Subset
<1> QED BY <1>3, FS_CardinalityType, FS_EmptySet

\* The edges into an id from the ids of a set, or from outside of it.
From(edges, i, S) ==
    {k \in Linked(edges) : edges[k].source \in S /\ edges[k].target = i}
Else(edges, i, S) ==
    {k \in Linked(edges) : edges[k].target = i /\ edges[k].source \notin S}

\* The in-degrees left once the nodes of `done` are gone, and whom that frees.
Remaining(nodes, edges, done) ==
    [i \in Ids(nodes) |-> Cardinality(Else(edges, i, done))]

Free(nodes, edges, done) ==
    {i \in Ids(nodes) :
       \A k \in Linked(edges) : edges[k].target = i => edges[k].source \in done}

LEMMA InDegreeRemains == \A nodes, edges : InDegree(nodes, edges) = Remaining(nodes, edges, {})
<1> TAKE nodes, edges
<1>1. \A i : Else(edges, i, {}) = {k \in Linked(edges) : edges[k].target = i}
  BY DEF Else
<1> QED BY <1>1 DEF InDegree, Remaining

LEMMA RemainingType ==
  ASSUME NEW nodes, NEW edges, Lists(nodes, edges), NEW done
  PROVE  Remaining(nodes, edges, done) \in [Ids(nodes) -> Int]
<1>1. \A i \in Ids(nodes) : Cardinality(Else(edges, i, done)) \in Nat
  BY LinkedFinite DEF Else
<1> QED BY <1>1 DEF Remaining

\* What is left of a count when a level leaves is the count of what is left.
LEMMA LevelLeaves ==
  ASSUME NEW nodes, NEW edges, Lists(nodes, edges), NEW done, NEW level,
         level \cap done = {}
  PROVE  DecrementAll(Remaining(nodes, edges, done), edges, level)
           = Remaining(nodes, edges, done \cup level)
<1>1. ASSUME NEW i \in Ids(nodes)
      PROVE  Cardinality(Else(edges, i, done)) - Cardinality(From(edges, i, level))
               = Cardinality(Else(edges, i, done \cup level))
  <2>1. Else(edges, i, done) = From(edges, i, level) \cup Else(edges, i, done \cup level)
    BY DEF From, Else
  <2>2. From(edges, i, level) \cap Else(edges, i, done \cup level) = {}
    BY DEF From, Else
  <2>3. /\ IsFiniteSet(From(edges, i, level)) /\ Cardinality(From(edges, i, level)) \in Nat
        /\ IsFiniteSet(Else(edges, i, done \cup level))
        /\ Cardinality(Else(edges, i, done \cup level)) \in Nat
    BY LinkedFinite DEF From, Else
  <2> HIDE DEF Else, From
  <2>4. Cardinality(Else(edges, i, done))
          = Cardinality(From(edges, i, level)) + Cardinality(Else(edges, i, done \cup level))
    BY <2>1, <2>2, <2>3, DisjointUnion
  <2> QED BY <2>3, <2>4
<1> QED BY <1>1 DEF DecrementAll, Remaining, From

\* A count is zero when every edge it counted has its source gone.
LEMMA ZeroIsFree ==
  ASSUME NEW nodes, NEW edges, Lists(nodes, edges), NEW done
  PROVE  Zero(Remaining(nodes, edges, done)) = Free(nodes, edges, done)
<1>1. \A i \in Ids(nodes) : Cardinality(Else(edges, i, done)) = 0 <=> Else(edges, i, done) = {}
  BY LinkedFinite DEF Else
<1> QED BY <1>1 DEF Zero, Remaining, Free, Else

-----------------------------------------------------------------------------
(* Who is done after n rounds, and that everybody is who can be.            *)

Done(nodes, edges) ==
    Rounds({}, [done \in SUBSET Ids(nodes) |-> Free(nodes, edges, done)])

LEMMA DoneIs ==
  ASSUME NEW nodes, NEW edges
  PROVE  /\ Done(nodes, edges)[0] = {}
         /\ \A n \in Nat : /\ Done(nodes, edges)[n] \subseteq Ids(nodes)
                           /\ Done(nodes, edges)[n + 1]
                                = Free(nodes, edges, Done(nodes, edges)[n])
<1> DEFINE body == [done \in SUBSET Ids(nodes) |-> Free(nodes, edges, done)]
           D == Rounds({}, body)
<1>1. body \in [SUBSET Ids(nodes) -> SUBSET Ids(nodes)]
  BY DEF Free
<1>2. {} \in SUBSET Ids(nodes)
  OBVIOUS
<1>3. D \in [Nat -> SUBSET Ids(nodes)] /\ D[0] = {} /\ \A n \in Nat : D[n + 1] = body[D[n]]
  <2> HIDE DEF body
  <2> QED BY <1>1, <1>2, RoundsAre
<1>4. D = Done(nodes, edges)
  BY DEF Done
<1> HIDE DEF D
<1> QED BY <1>3, <1>4

LEMMA DoneGrows ==
  ASSUME NEW nodes, NEW edges, NEW n \in Nat
  PROVE  Done(nodes, edges)[n] \subseteq Done(nodes, edges)[n + 1]
<1> DEFINE D == Done(nodes, edges)
           T == {m \in Nat : D[m] \subseteq D[m + 1]}
<1>1. 0 \in T
  BY DoneIs
<1>2. \A m \in T : m + 1 \in T
  BY DoneIs DEF Free
<1>3. T = Nat
  <2>1. T \in SUBSET Nat
    OBVIOUS
  <2> HIDE DEF T
  <2> QED BY <1>1, <1>2, <2>1, SetInduction
<1> QED BY <1>3

\* Whoever is done, is done after any later round.
LEMMA DoneStays ==
  ASSUME NEW nodes, NEW edges, NEW m \in Nat, NEW n \in Nat, m <= n
  PROVE  Done(nodes, edges)[m] \subseteq Done(nodes, edges)[n]
<1> DEFINE D == Done(nodes, edges)
           T == {j \in Nat : D[m] \subseteq D[m + j]}
<1>1. 0 \in T
  OBVIOUS
<1>2. ASSUME NEW j \in T PROVE j + 1 \in T
  <2>1. j \in Nat /\ m + j \in Nat /\ (m + j) + 1 = m + (j + 1)
    OBVIOUS
  <2>2. D[m] \subseteq D[m + j] /\ D[m + j] \subseteq D[(m + j) + 1]
    BY <2>1, DoneGrows
  <2> QED BY <2>1, <2>2
<1>3. T = Nat
  <2>1. T \in SUBSET Nat
    OBVIOUS
  <2> HIDE DEF T
  <2> QED BY <1>1, <1>2, <2>1, SetInduction
<1>4. n - m \in Nat /\ m + (n - m) = n
  OBVIOUS
<1>5. n - m \in T
  BY <1>3, <1>4
<1> QED BY <1>4, <1>5

\* A round that makes nobody done is the last that could.
LEMMA DoneIsOver ==
  ASSUME NEW nodes, NEW edges, NEW m \in Nat, NEW n \in Nat, m <= n,
         Done(nodes, edges)[m + 1] = Done(nodes, edges)[m]
  PROVE  Done(nodes, edges)[n] = Done(nodes, edges)[m]
<1> DEFINE D == Done(nodes, edges)
           T == {j \in Nat : D[m + j] = D[m]}
<1>1. 0 \in T
  OBVIOUS
<1>2. ASSUME NEW j \in T PROVE j + 1 \in T
  <2>1. j \in Nat /\ m + j \in Nat /\ (m + j) + 1 = m + (j + 1)
    OBVIOUS
  <2>2. D[(m + j) + 1] = Free(nodes, edges, D[m + j]) /\ D[m + 1] = Free(nodes, edges, D[m])
    BY <2>1, DoneIs
  <2> QED BY <2>1, <2>2
<1>3. T = Nat
  <2>1. T \in SUBSET Nat
    OBVIOUS
  <2> HIDE DEF T
  <2> QED BY <1>1, <1>2, <2>1, SetInduction
<1>4. n - m \in Nat /\ m + (n - m) = n
  OBVIOUS
<1>5. n - m \in T
  BY <1>3, <1>4
<1> QED BY <1>4, <1>5

-----------------------------------------------------------------------------
(* The loop of topological_levels: a level is whom a round makes done.      *)

NewAt(nodes, edges, l) == Done(nodes, edges)[l] \ Done(nodes, edges)[l - 1]

LEMMA NewAtNext ==
  ASSUME NEW nodes, NEW edges, NEW l \in Nat
  PROVE  NewAt(nodes, edges, l + 1) = Done(nodes, edges)[l + 1] \ Done(nodes, edges)[l]
<1>1. (l + 1) - 1 = l
  OBVIOUS
<1> QED BY <1>1 DEF NewAt

\* The loop's state when it has left L levels behind.
LevelAt(nodes, edges, L) ==
    [current |-> NewAt(nodes, edges, L + 1),
     degree  |-> Remaining(nodes, edges, Done(nodes, edges)[L]),
     levels  |-> [l \in 1 .. L |-> NewAt(nodes, edges, l)]]

LEMMA LevelAtType ==
  ASSUME NEW nodes, NEW edges, Lists(nodes, edges), NEW L \in Nat
  PROVE  LevelAt(nodes, edges, L) \in LevelState(nodes)
<1>1. \A l \in Nat : l > 0 => NewAt(nodes, edges, l) \in SUBSET Ids(nodes)
  BY DoneIs DEF NewAt
<1>2. [l \in 1 .. L |-> NewAt(nodes, edges, l)] \in Seq(SUBSET Ids(nodes))
  BY <1>1
<1>3. Remaining(nodes, edges, Done(nodes, edges)[L]) \in [Ids(nodes) -> Int]
  BY RemainingType
<1> QED BY <1>1, <1>2, <1>3 DEF LevelAt, LevelState

LEMMA LevelStartIs ==
  ASSUME NEW nodes, NEW edges, Lists(nodes, edges)
  PROVE  LevelStart(nodes, edges) = LevelAt(nodes, edges, 0)
<1>1. Done(nodes, edges)[0] = {} /\ Done(nodes, edges)[0 + 1] = Free(nodes, edges, {})
  BY DoneIs
<1>2. Zero(Remaining(nodes, edges, {})) = NewAt(nodes, edges, 0 + 1)
  BY <1>1, ZeroIsFree DEF NewAt
<1>3. [l \in 1 .. 0 |-> NewAt(nodes, edges, l)] = << >>
  OBVIOUS
<1> QED BY <1>1, <1>2, <1>3, InDegreeRemains DEF LevelStart, LevelAt

LEMMA DecrementType ==
  ASSUME NEW nodes, NEW edges, Lists(nodes, edges),
         NEW degree \in [Ids(nodes) -> Int], NEW level
  PROVE  DecrementAll(degree, edges, level) \in [Ids(nodes) -> Int]
<1>1. \A i : Cardinality(From(edges, i, level)) \in Int
  BY LinkedFinite DEF From
<1>2. DecrementAll(degree, edges, level)
        = [i \in Ids(nodes) |-> degree[i] - Cardinality(From(edges, i, level))]
  BY DEF DecrementAll, From
<1> QED BY <1>1, <1>2

LEMMA LevelBodyType ==
  ASSUME NEW nodes, NEW edges, Lists(nodes, edges)
  PROVE  LevelBody(nodes, edges) \in [LevelState(nodes) -> LevelState(nodes)]
<1> SUFFICES ASSUME NEW s \in LevelState(nodes)
             PROVE  LevelBody(nodes, edges)[s] \in LevelState(nodes)
  BY DEF LevelBody
<1> DEFINE left == DecrementAll(s.degree, edges, s.current)
<1>1. left \in [Ids(nodes) -> Int]
  BY DecrementType DEF LevelState
<1>2. Zero(left) \ Zero(s.degree) \in SUBSET Ids(nodes)
  BY <1>1 DEF Zero
<1>3. Append(s.levels, s.current) \in Seq(SUBSET Ids(nodes))
  BY DEF LevelState
<1> HIDE DEF left
<1>4. [current |-> Zero(left) \ Zero(s.degree), degree |-> left,
       levels |-> Append(s.levels, s.current)] \in LevelState(nodes)
  BY <1>1, <1>2, <1>3 DEF LevelState
<1> QED BY <1>4 DEF LevelBody, left

\* A round of the loop leaves one level more behind, or it has ended.
LEMMA LevelBodyIs ==
  ASSUME NEW nodes, NEW edges, Lists(nodes, edges), NEW L \in Nat
  PROVE  LevelBody(nodes, edges)[LevelAt(nodes, edges, L)]
           = IF Done(nodes, edges)[L + 1] = Done(nodes, edges)[L]
               THEN LevelAt(nodes, edges, L) ELSE LevelAt(nodes, edges, L + 1)
<1> DEFINE D == Done(nodes, edges)
           s == LevelAt(nodes, edges, L)
           left == DecrementAll(s.degree, edges, s.current)
<1>1. /\ s.current = D[L + 1] \ D[L] /\ s.degree = Remaining(nodes, edges, D[L])
      /\ s.levels = [l \in 1 .. L |-> NewAt(nodes, edges, l)]
  BY DEF LevelAt, NewAt
<1>2. s.current = {} <=> D[L + 1] = D[L]
  BY <1>1, DoneGrows
<1>3. LevelBody(nodes, edges)[s] =
        IF s.current = {} THEN s
        ELSE [current |-> Zero(left) \ Zero(s.degree), degree |-> left,
              levels |-> Append(s.levels, s.current)]
  BY LevelAtType DEF LevelBody
<1>4. left = Remaining(nodes, edges, D[L + 1])
  <2>1. D[L] \cup s.current = D[L + 1] /\ s.current \cap D[L] = {}
    BY <1>1, DoneGrows
  <2> HIDE DEF D, s
  <2> QED BY <1>1, <2>1, LevelLeaves
<1>5. Zero(left) \ Zero(s.degree) = NewAt(nodes, edges, (L + 1) + 1)
  <2>1. Zero(left) = D[(L + 1) + 1] /\ Zero(s.degree) = D[L + 1]
    BY <1>1, <1>4, ZeroIsFree, DoneIs
  <2> QED BY <2>1 DEF NewAt
<1>6. Append(s.levels, s.current) = [l \in 1 .. L + 1 |-> NewAt(nodes, edges, l)]
  <2> DEFINE e(l) == NewAt(nodes, edges, l)
  <2>1. s.current = e(L + 1)
    BY <1>1 DEF NewAt
  <2> HIDE DEF e
  <2>2. Append([l \in 1 .. L |-> e(l)], e(L + 1)) = [l \in 1 .. L + 1 |-> e(l)]
    OBVIOUS
  <2> QED BY <1>1, <2>1, <2>2 DEF e
<1> HIDE DEF left
<1>7. [current |-> Zero(left) \ Zero(s.degree), degree |-> left,
       levels |-> Append(s.levels, s.current)] = LevelAt(nodes, edges, L + 1)
  BY <1>4, <1>5, <1>6 DEF LevelAt
<1> QED BY <1>2, <1>3, <1>7

\* Every level adds to those who are done.
LEMMA DoneCounts ==
  ASSUME NEW nodes, NEW edges, Lists(nodes, edges), NEW L \in Nat,
         \A l \in 1 .. L : NewAt(nodes, edges, l) # {}
  PROVE  Cardinality(Done(nodes, edges)[L]) >= L
<1> DEFINE D == Done(nodes, edges)
           T == {m \in Nat : m <= L => Cardinality(D[m]) >= m}
<1>1. 0 \in T
  BY DoneIs, FS_EmptySet
<1>2. ASSUME NEW m \in T, m + 1 <= L PROVE Cardinality(D[m + 1]) >= m + 1
  <2>1. m \in Nat /\ Cardinality(D[m]) >= m
    BY <1>2
  <2>2. IsFiniteSet(D[m + 1]) /\ IsFiniteSet(D[m]) /\ D[m] \subseteq D[m + 1]
    <3>1. D[m + 1] \in SUBSET Ids(nodes) /\ D[m] \in SUBSET Ids(nodes)
      BY <2>1, DoneIs
    <3> QED BY <2>1, <3>1, DoneGrows, IdsFinite, FS_Subset
  <2>3. D[m + 1] # D[m]
    <3>1. NewAt(nodes, edges, m + 1) # {}
      BY <1>2, <2>1
    <3> QED BY <2>1, <3>1 DEF NewAt
  <2>4. Cardinality(D[m]) \in Nat /\ Cardinality(D[m + 1]) \in Nat
    BY <2>2, FS_CardinalityType
  <2>5. Cardinality(D[m]) <= Cardinality(D[m + 1]) /\ Cardinality(D[m]) # Cardinality(D[m + 1])
    BY <2>2, <2>3, FS_Subset
  <2> QED BY <2>1, <2>4, <2>5
<1>3. T = Nat
  <2>1. T \in SUBSET Nat /\ \A m \in T : m + 1 \in T
    BY <1>2
  <2> HIDE DEF T
  <2> QED BY <1>1, <2>1, SetInduction
<1>4. L \in T
  BY <1>3
<1> QED BY <1>4

\* After n rounds the loop has left n levels behind, or fewer and has ended.
HasLeft(nodes, edges, n, L) ==
    /\ Rounds(LevelStart(nodes, edges), LevelBody(nodes, edges))[n]
         = LevelAt(nodes, edges, L)
    /\ \A l \in 1 .. L : NewAt(nodes, edges, l) # {}
    /\ L = n \/ Done(nodes, edges)[L + 1] = Done(nodes, edges)[L]

LEMMA LevelRounds ==
  ASSUME NEW nodes, NEW edges, Lists(nodes, edges), NEW n \in Nat
  PROVE  \E L \in 0 .. n : HasLeft(nodes, edges, n, L)
<1> DEFINE R == Rounds(LevelStart(nodes, edges), LevelBody(nodes, edges))
           D == Done(nodes, edges)
           Good(m, L) == /\ R[m] = LevelAt(nodes, edges, L)
                         /\ \A l \in 1 .. L : NewAt(nodes, edges, l) # {}
                         /\ L = m \/ D[L + 1] = D[L]
           T == {m \in Nat : \E L \in 0 .. m : Good(m, L)}
<1>1. R[0] = LevelAt(nodes, edges, 0) /\ \A m \in Nat : R[m + 1] = LevelBody(nodes, edges)[R[m]]
  BY LevelStartIs, LevelAtType, LevelBodyType, RoundsAre
<1> HIDE DEF R
<1>2. 0 \in T
  BY <1>1
<1>3. ASSUME NEW m \in T PROVE m + 1 \in T
  <2>1. PICK L \in 0 .. m : Good(m, L)
    OBVIOUS
  <2>2. m \in Nat /\ L \in Nat /\ R[m + 1] = LevelBody(nodes, edges)[LevelAt(nodes, edges, L)]
    BY <1>1, <2>1
  <2>3. CASE D[L + 1] = D[L]
    <3>1. Good(m + 1, L)
      BY <2>1, <2>2, <2>3, LevelBodyIs
    <3> QED BY <3>1
  <2>4. CASE D[L + 1] # D[L]
    <3>1. R[m + 1] = LevelAt(nodes, edges, L + 1)
      BY <2>2, <2>4, LevelBodyIs
    <3>2. NewAt(nodes, edges, L + 1) # {}
      <4>1. D[L] \subseteq D[L + 1] /\ NewAt(nodes, edges, L + 1) = D[L + 1] \ D[L]
        BY <2>2, NewAtNext, DoneGrows
      <4> HIDE DEF D
      <4> QED BY <2>4, <4>1
    <3>3. L = m
      BY <2>1, <2>4
    <3>4. \A l \in 1 .. L + 1 : NewAt(nodes, edges, l) # {}
      BY <2>1, <2>2, <3>2
    <3>5. Good(m + 1, L + 1)
      BY <3>1, <3>3, <3>4
    <3>6. L + 1 \in 0 .. m + 1
      OBVIOUS
    <3> HIDE DEF Good
    <3> QED BY <3>5, <3>6
  <2> QED BY <2>3, <2>4
<1>4. T = Nat
  <2>1. T \in SUBSET Nat
    OBVIOUS
  <2> HIDE DEF T
  <2> QED BY <1>2, <1>3, <2>1, SetInduction
<1>5. n \in T
  BY <1>4
<1>6. PICK L \in 0 .. n : Good(n, L)
  BY <1>5
<1>7. HasLeft(nodes, edges, n, L)
  BY <1>6 DEF R, HasLeft
<1> QED BY <1>7

\* A round for each id is enough for the loop to end, with everybody done who
\* can be, each in the level of the round that makes it done.
LEMMA LevelStepsAre ==
  ASSUME NEW nodes, NEW edges, Lists(nodes, edges)
  PROVE  \E L \in 0 .. Cardinality(Ids(nodes)) :
           /\ LevelSteps(nodes, edges) = [l \in 1 .. L |-> NewAt(nodes, edges, l)]
           /\ \A l \in 1 .. L : NewAt(nodes, edges, l) # {}
           /\ Done(nodes, edges)[L + 1] = Done(nodes, edges)[L]
<1> DEFINE N == Cardinality(Ids(nodes))
           D == Done(nodes, edges)
<1>1. N \in Nat /\ IsFiniteSet(Ids(nodes))
  BY IdsFinite
<1> HIDE DEF N
<1>2. PICK L \in 0 .. N : HasLeft(nodes, edges, N, L)
  BY <1>1, LevelRounds
<1> HIDE DEF D
<1>3. /\ Rounds(LevelStart(nodes, edges), LevelBody(nodes, edges))[N]
           = LevelAt(nodes, edges, L)
      /\ \A l \in 1 .. L : NewAt(nodes, edges, l) # {}
      /\ L = N \/ D[L + 1] = D[L]
  BY <1>2 DEF HasLeft, D
<1>4. LevelSteps(nodes, edges) = [l \in 1 .. L |-> NewAt(nodes, edges, l)]
  BY <1>3 DEF LevelSteps, LevelAt, N
<1>5. D[L + 1] = D[L]
  <2>1. CASE L = N
    <3>1. D[N] \in SUBSET Ids(nodes) /\ D[N + 1] \in SUBSET Ids(nodes)
      BY <1>1, DoneIs DEF D
    <3>2. Cardinality(D[N]) >= N
      BY <1>1, <1>3, <2>1, DoneCounts DEF D
    <3>3. Cardinality(D[N]) <= N /\ (Cardinality(D[N]) = N => Ids(nodes) = D[N])
      BY <1>1, <3>1, FS_Subset DEF N
    <3>4. Cardinality(D[N]) \in Nat
      BY <1>1, <3>1, FS_Subset, FS_CardinalityType
    <3>5. D[N] = Ids(nodes)
      BY <1>1, <3>2, <3>3, <3>4
    <3>6. D[N] \subseteq D[N + 1]
      BY <1>1, DoneGrows DEF D
    <3>7. D[N + 1] = D[N]
      BY <3>1, <3>5, <3>6
    <3> QED BY <2>1, <3>7
  <2> QED BY <1>3, <2>1
<1> QED BY <1>3, <1>4, <1>5 DEF N, D

\* Whoever is done by L was made done by exactly one round up to it.
LEMMA DoneByRound ==
  ASSUME NEW nodes, NEW edges, NEW L \in Nat
  PROVE  /\ \A i \in Done(nodes, edges)[L] : \E l \in 1 .. L : i \in NewAt(nodes, edges, l)
         /\ \A l \in 1 .. L : NewAt(nodes, edges, l) \subseteq Done(nodes, edges)[L]
         /\ \A l, m \in 1 .. L : l # m => NewAt(nodes, edges, l) \cap NewAt(nodes, edges, m) = {}
<1> DEFINE D == Done(nodes, edges)
<1>1. ASSUME NEW i \in D[L] PROVE \E l \in 1 .. L : i \in NewAt(nodes, edges, l)
  <2> DEFINE T == {n \in Nat : i \in D[n]}
  <2>1. T \in SUBSET Nat /\ L \in T
    OBVIOUS
  <2>2. PICK m \in T : \A k \in T : m <= k
    <3> HIDE DEF T
    <3> QED BY <2>1, LeastNatural
  <2>3. m # 0
    BY <2>2, DoneIs
  <2>4. m \in 1 .. L /\ m - 1 \in Nat
    BY <2>1, <2>2, <2>3
  <2>5. m - 1 \notin T
    BY <2>2, <2>4
  <2>6. i \in NewAt(nodes, edges, m)
    BY <2>2, <2>4, <2>5 DEF NewAt
  <2> QED BY <2>4, <2>6
<1>2. \A l \in 1 .. L : NewAt(nodes, edges, l) \subseteq D[L]
  BY DoneStays DEF NewAt
<1>3. ASSUME NEW l \in 1 .. L, NEW m \in 1 .. L, l < m
      PROVE  NewAt(nodes, edges, l) \cap NewAt(nodes, edges, m) = {}
  <2>1. l \in Nat /\ m - 1 \in Nat /\ l <= m - 1
    BY <1>3
  <2>2. D[l] \subseteq D[m - 1]
    BY <2>1, DoneStays
  <2> QED BY <2>2 DEF NewAt
<1>4. ASSUME NEW l \in 1 .. L, NEW m \in 1 .. L, l # m
      PROVE  NewAt(nodes, edges, l) \cap NewAt(nodes, edges, m) = {}
  <2>1. l < m \/ m < l
    BY <1>4
  <2>2. CASE l < m
    BY <1>3, <2>2
  <2>3. CASE m < l
    <3>1. NewAt(nodes, edges, m) \cap NewAt(nodes, edges, l) = {}
      BY <1>3, <2>3
    <3> QED BY <3>1
  <2> QED BY <2>1, <2>2, <2>3
<1> QED BY <1>1, <1>2, <1>4

\* Everybody whom the algorithm ever takes out of the graph.
AllDone(nodes, edges) == Done(nodes, edges)[Cardinality(Ids(nodes))]

\* The levels of the algorithm partition those who are done for good.
LEMMA LevelsPartition ==
  ASSUME NEW nodes, NEW edges, Lists(nodes, edges)
  PROVE  \E L \in 0 .. Cardinality(Ids(nodes)) :
           /\ LevelSteps(nodes, edges) = [l \in 1 .. L |-> NewAt(nodes, edges, l)]
           /\ LevelSteps(nodes, edges) \in Seq(SUBSET Ids(nodes))
           /\ Len(LevelSteps(nodes, edges)) = L
           /\ \A l \in 1 .. L : NewAt(nodes, edges, l) # {}
           /\ Done(nodes, edges)[L] = AllDone(nodes, edges)
           /\ Free(nodes, edges, AllDone(nodes, edges)) = AllDone(nodes, edges)
           /\ UNION SX!ToSet(LevelSteps(nodes, edges)) = AllDone(nodes, edges)
<1> DEFINE N == Cardinality(Ids(nodes))
           D == Done(nodes, edges)
<1>1. PICK L \in 0 .. N :
        /\ LevelSteps(nodes, edges) = [l \in 1 .. L |-> NewAt(nodes, edges, l)]
        /\ \A l \in 1 .. L : NewAt(nodes, edges, l) # {}
        /\ D[L + 1] = D[L]
  BY LevelStepsAre
<1>2. N \in Nat
  BY IdsFinite
<1> HIDE DEF N
<1>3. L \in Nat /\ L <= N
  BY <1>2
<1>4. D[N] = D[L]
  BY <1>1, <1>2, <1>3, DoneIsOver
<1>5. Free(nodes, edges, D[L]) = D[L]
  BY <1>1, <1>3, DoneIs
<1>6. UNION SX!ToSet(LevelSteps(nodes, edges)) = D[L]
  BY <1>1, <1>3, DoneByRound DEF SX!ToSet
<1>7. LevelSteps(nodes, edges) \in Seq(SUBSET Ids(nodes))
  <2>1. \A l \in 1 .. L : NewAt(nodes, edges, l) \in SUBSET Ids(nodes)
    BY <1>3, DoneIs DEF NewAt
  <2>2. [l \in 1 .. L |-> NewAt(nodes, edges, l)] \in Seq(SUBSET Ids(nodes))
    BY <1>3, <2>1
  <2> QED BY <1>1, <2>2
<1>8. Len(LevelSteps(nodes, edges)) = L
  BY <1>1, <1>3
<1> QED BY <1>1, <1>4, <1>5, <1>6, <1>7, <1>8 DEF N, AllDone

\* What topological_levels answers: "every node's dependencies sit in strictly
\* earlier levels", every node is in one level, and no level is empty.
Levelled(nodes, edges, levels) ==
    /\ levels \in Seq(SUBSET Ids(nodes))
    /\ \A l \in 1 .. Len(levels) : levels[l] # {}
    /\ \A i \in Ids(nodes) : \E l \in 1 .. Len(levels) : i \in levels[l]
    /\ \A l, m \in 1 .. Len(levels) : l # m => levels[l] \cap levels[m] = {}
    /\ \A k \in Linked(edges), l \in 1 .. Len(levels) :
         edges[k].target \in levels[l] =>
           \E m \in 1 .. Len(levels) : m < l /\ edges[k].source \in levels[m]

\* Of whatever lists the levels are computed, if they are at all they are levels,
\* and no two nodes share an id.
THEOREM LevelsRespectEdges ==
  ASSUME NEW nodes, NEW edges, Lists(nodes, edges),
         TopologicalLevels(nodes, edges).outcome = "ok"
  PROVE  /\ Levelled(nodes, edges, TopologicalLevels(nodes, edges).levels)
         /\ \A i, j \in DOMAIN nodes : nodes[i].id = nodes[j].id => i = j
<1> DEFINE levels == TopologicalLevels(nodes, edges).levels
           D == Done(nodes, edges)
<1>1. PICK L \in 0 .. Cardinality(Ids(nodes)) :
        /\ LevelSteps(nodes, edges) = [l \in 1 .. L |-> NewAt(nodes, edges, l)]
        /\ LevelSteps(nodes, edges) \in Seq(SUBSET Ids(nodes))
        /\ Len(LevelSteps(nodes, edges)) = L
        /\ \A l \in 1 .. L : NewAt(nodes, edges, l) # {}
        /\ D[L] = AllDone(nodes, edges)
        /\ UNION SX!ToSet(LevelSteps(nodes, edges)) = AllDone(nodes, edges)
  BY LevelsPartition
<1>2. L \in Nat /\ IsFiniteSet(Ids(nodes)) /\ D[L] \in SUBSET Ids(nodes)
  BY IdsFinite, DoneIs
<1>3. levels = LevelSteps(nodes, edges) /\ Cardinality(AllDone(nodes, edges)) = Len(nodes)
  BY <1>1 DEF TopologicalLevels
<1>4. D[L] = Ids(nodes) /\ Cardinality(Ids(nodes)) = Len(nodes)
  <2>1. /\ Cardinality(D[L]) <= Cardinality(Ids(nodes))
        /\ Cardinality(Ids(nodes)) = Cardinality(D[L]) => Ids(nodes) = D[L]
    BY <1>2, FS_Subset
  <2> QED BY <1>1, <1>3, <2>1, IdsFinite, ListsAre
<1> HIDE DEF levels
<1>5. /\ Len(levels) = L /\ levels \in Seq(SUBSET Ids(nodes))
      /\ \A l \in 1 .. L : levels[l] = NewAt(nodes, edges, l)
  BY <1>1, <1>3
<1>6. ASSUME NEW k \in Linked(edges), NEW l \in 1 .. L, edges[k].target \in levels[l]
      PROVE  \E m \in 1 .. L : m < l /\ edges[k].source \in levels[m]
  <2>1. l - 1 \in Nat /\ (l - 1) + 1 = l
    BY <1>2
  <2>2. edges[k].target \in Free(nodes, edges, D[l - 1])
    BY <1>5, <1>6, <2>1, DoneIs DEF NewAt
  <2>3. edges[k].source \in D[l - 1]
    BY <2>2 DEF Free
  <2>4. PICK m \in 1 .. l - 1 : edges[k].source \in NewAt(nodes, edges, m)
    BY <2>1, <2>3, DoneByRound
  <2>5. m \in 1 .. L /\ m < l
    BY <1>2, <2>1
  <2> QED BY <1>5, <2>4, <2>5
<1>7. Levelled(nodes, edges, levels)
  <2>1. \A i \in Ids(nodes) : \E l \in 1 .. L : i \in levels[l]
    BY <1>2, <1>4, <1>5, DoneByRound
  <2>2. \A l, m \in 1 .. L : l # m => levels[l] \cap levels[m] = {}
    BY <1>2, <1>5, DoneByRound
  <2> QED BY <1>1, <1>5, <1>6, <2>1, <2>2 DEF Levelled
<1> QED BY <1>4, <1>7, IdsFinite DEF levels

-----------------------------------------------------------------------------
(* Positions in their order.                                                *)

LEMMA InOrderIs ==
  ASSUME NEW n \in Nat, NEW K \in SUBSET (1 .. n)
  PROVE  /\ Cardinality(K) \in Nat
         /\ InOrder(K) \in [1 .. Cardinality(K) -> K]
         /\ \A k \in K : \E i \in 1 .. Cardinality(K) : InOrder(K)[i] = k
         /\ \A i, j \in 1 .. Cardinality(K) : i # j => InOrder(K)[i] # InOrder(K)[j]
         /\ \A i, j \in 1 .. Cardinality(K) : i < j => InOrder(K)[i] < InOrder(K)[j]
<1> DEFINE c == Cardinality(K)
           before(k) == {j \in K : j < k}
           rank == [k \in K |-> Cardinality(before(k)) + 1]
<1>1. IsFiniteSet(K) /\ c \in Nat
  BY UpTo, FS_Subset, FS_CardinalityType
<1>2. \A k \in K : /\ IsFiniteSet(before(k)) /\ Cardinality(before(k)) \in Nat
                   /\ Cardinality(before(k)) < c
  <2> TAKE k \in K
  <2>1. before(k) \in SUBSET K /\ before(k) # K
    OBVIOUS
  <2> HIDE DEF before
  <2>2. /\ IsFiniteSet(before(k)) /\ Cardinality(before(k)) <= c
        /\ c = Cardinality(before(k)) => K = before(k)
    BY <1>1, <2>1, FS_Subset
  <2> QED BY <1>1, <2>1, <2>2, FS_CardinalityType
<1>3. ASSUME NEW j \in K, NEW k \in K, j < k PROVE Cardinality(before(j)) < Cardinality(before(k))
  <2>1. before(j) \in SUBSET before(k) /\ before(j) # before(k)
    <3>1. \A i \in before(j) : i \in before(k)
      BY <1>3
    <3>2. j \in before(k) /\ j \notin before(j)
      BY <1>3
    <3> HIDE DEF before
    <3> QED BY <3>1, <3>2
  <2> HIDE DEF before
  <2>2. /\ Cardinality(before(j)) <= Cardinality(before(k))
        /\ Cardinality(before(k)) = Cardinality(before(j)) => before(k) = before(j)
    BY <1>2, <2>1, FS_Subset
  <2> QED BY <1>2, <2>1, <2>2
<1> HIDE DEF before
<1>4. rank \in [K -> 1 .. c]
  BY <1>1, <1>2
<1>5. rank \in Injection(K, 1 .. c)
  <2>1. \A j, k \in K : j # k => j < k \/ k < j
    OBVIOUS
  <2>2. \A j, k \in K : j # k => Cardinality(before(j)) # Cardinality(before(k))
    BY <1>2, <1>3, <2>1
  <2>3. \A j, k \in K : j # k => rank[j] # rank[k]
    BY <1>2, <2>2
  <2> QED BY <1>4, <2>3 DEF Injection, IsInjective
<1>6. rank \in Surjection(K, 1 .. c)
  <2>1. IsFiniteSet(1 .. c) /\ Cardinality(1 .. c) = c
    BY <1>1, UpTo
  <2> HIDE DEF rank
  <2> QED BY <1>1, <1>5, <2>1, FS_Injection
<1> DEFINE at == InOrder(K)
<1>7. at = [i \in 1 .. c |-> CHOOSE k \in K : Cardinality(before(k)) = i - 1]
  BY DEF InOrder, before
<1>8. \A i \in 1 .. c : at[i] \in K /\ rank[at[i]] = i
  <2> TAKE i \in 1 .. c
  <2>1. PICK k \in K : rank[k] = i
    BY <1>6 DEF Surjection
  <2>2. Cardinality(before(k)) = i - 1
    BY <1>2, <2>1
  <2>3. at[i] \in K /\ Cardinality(before(at[i])) = i - 1
    BY <1>7, <2>2
  <2> QED BY <2>3
<1>9. at \in [1 .. c -> K]
  BY <1>7, <1>8
<1>10. \A k \in K : \E i \in 1 .. c : at[i] = k
  <2> TAKE k \in K
  <2>1. rank[k] \in 1 .. c
    BY <1>4
  <2>2. at[rank[k]] \in K /\ rank[at[rank[k]]] = rank[k]
    BY <1>8, <2>1
  <2>3. at[rank[k]] = k
    BY <1>5, <2>2 DEF Injection, IsInjective
  <2> QED BY <2>1, <2>3
<1>11. \A i, j \in 1 .. c : i < j => at[i] < at[j]
  <2> SUFFICES ASSUME NEW i \in 1 .. c, NEW j \in 1 .. c, i < j, ~(at[i] < at[j]) PROVE FALSE
    OBVIOUS
  <2> DEFINE ai == at[i]
             aj == at[j]
  <2>1. ai \in K /\ aj \in K /\ rank[ai] = i /\ rank[aj] = j /\ ~(ai < aj)
    BY <1>8
  <2> HIDE DEF ai, aj
  <2>2. aj < ai \/ aj = ai
    BY <2>1
  <2>3. aj < ai => rank[aj] < rank[ai]
    BY <1>2, <1>3, <2>1
  <2> QED BY <2>1, <2>2, <2>3
<1>12. \A i, j \in 1 .. c : i # j => at[i] # at[j]
  <2> HIDE DEF at
  <2> QED BY <1>8
<1> QED BY <1>1, <1>9, <1>10, <1>11, <1>12

\* The targets of edges, no two of which have the same, list these targets.
LEMMA TargetsAre ==
  ASSUME NEW n \in Nat, NEW K \in SUBSET (1 .. n), NEW edges,
         NEW S, \A k \in K : edges[k].target \in S
  PROVE  /\ Targets(edges, K) \in Seq(S)
         /\ Len(Targets(edges, K)) = Cardinality(K)
         /\ {Targets(edges, K)[i] : i \in 1 .. Len(Targets(edges, K))}
              = {edges[k].target : k \in K}
         /\ (\A j, k \in K : edges[j].target = edges[k].target => j = k) =>
              \A i, j \in 1 .. Len(Targets(edges, K)) :
                i # j => Targets(edges, K)[i] # Targets(edges, K)[j]
<1> DEFINE c == Cardinality(K)
           at == InOrder(K)
           out == [i \in 1 .. c |-> edges[at[i]].target]
<1>1. /\ c \in Nat /\ at \in [1 .. c -> K]
      /\ \A k \in K : \E i \in 1 .. c : at[i] = k
      /\ \A i, j \in 1 .. c : i # j => at[i] # at[j]
  BY InOrderIs
<1>2. Targets(edges, K) = out
  BY <1>1 DEF Targets
<1> HIDE DEF c, at
<1>3. out \in Seq(S) /\ Len(out) = c
  <2>1. \A i \in 1 .. c : edges[at[i]].target \in S
    BY <1>1
  <2>2. out \in [1 .. c -> S]
    BY <2>1
  <2> HIDE DEF out
  <2> QED BY <1>1, <2>2
<1>4. {out[i] : i \in 1 .. c} = {edges[k].target : k \in K}
  <2>1. \A i \in 1 .. c : \E k \in K : out[i] = edges[k].target
    BY <1>1
  <2>2. \A k \in K : \E i \in 1 .. c : out[i] = edges[k].target
    BY <1>1
  <2> HIDE DEF out
  <2> QED BY <2>1, <2>2
<1>5. (\A j, k \in K : edges[j].target = edges[k].target => j = k) =>
        \A i, j \in 1 .. c : i # j => out[i] # out[j]
  BY <1>1
<1> HIDE DEF out
<1> QED BY <1>2, <1>3, <1>4, <1>5 DEF c

-----------------------------------------------------------------------------
(* Lists without repetition.                                                *)

Members(list) == {list[n] : n \in 1 .. Len(list)}

Distinct(list) == \A m, n \in 1 .. Len(list) : m # n => list[m] # list[n]

LEMMA TailIs ==
  ASSUME NEW S, NEW list \in Seq(S), list # << >>, Distinct(list)
  PROVE  /\ Head(list) \in S /\ Tail(list) \in Seq(S) /\ Distinct(Tail(list))
         /\ Members(list) = Members(Tail(list)) \cup {Head(list)}
         /\ Head(list) \notin Members(Tail(list))
<1>1. /\ Len(list) \in Nat /\ Len(list) # 0 /\ Head(list) = list[1]
      /\ Tail(list) \in Seq(S) /\ Len(Tail(list)) = Len(list) - 1
      /\ \A n \in 1 .. Len(list) - 1 : Tail(list)[n] = list[n + 1]
  OBVIOUS
<1>2. \A n \in 1 .. Len(list) : n = 1 \/ (n - 1 \in 1 .. Len(list) - 1 /\ (n - 1) + 1 = n)
  BY <1>1
<1>3. Members(list) = Members(Tail(list)) \cup {Head(list)}
  <2>1. ASSUME NEW x \in Members(list) PROVE x \in Members(Tail(list)) \cup {Head(list)}
    <3>1. PICK n \in 1 .. Len(list) : x = list[n]
      BY DEF Members
    <3>2. CASE n = 1
      BY <1>1, <3>1, <3>2
    <3>3. CASE n # 1
      <4>1. n - 1 \in 1 .. Len(list) - 1 /\ Tail(list)[n - 1] = x
        BY <1>1, <1>2, <3>1, <3>3
      <4> QED BY <1>1, <4>1 DEF Members
    <3> QED BY <3>2, <3>3
  <2>2. \A x \in Members(Tail(list)) : x \in Members(list)
    BY <1>1 DEF Members
  <2>3. Head(list) \in Members(list)
    BY <1>1 DEF Members
  <2> QED BY <2>1, <2>2, <2>3
<1>4. Head(list) \notin Members(Tail(list))
  BY <1>1 DEF Members, Distinct
<1>5. Distinct(Tail(list))
  BY <1>1 DEF Distinct
<1> QED BY <1>1, <1>3, <1>4, <1>5

LEMMA PushIs ==
  ASSUME NEW S, NEW left \in Seq(S), NEW right \in Seq(S)
  PROVE  /\ left \o right \in Seq(S) /\ Len(left \o right) = Len(left) + Len(right)
         /\ Members(left \o right) = Members(left) \cup Members(right)
<1> DEFINE both == left \o right
           a == Len(left)
           b == Len(right)
<1>1. /\ both \in Seq(S) /\ a \in Nat /\ b \in Nat /\ Len(both) = a + b
      /\ \A n \in 1 .. a : both[n] = left[n]
      /\ \A n \in 1 .. b : both[a + n] = right[n]
  OBVIOUS
<1>2. \A n \in 1 .. a + b : n \in 1 .. a \/ (n - a \in 1 .. b /\ a + (n - a) = n)
  BY <1>1
<1> HIDE DEF both, a, b
<1>3. \A n \in 1 .. Len(both) : both[n] \in Members(left) \cup Members(right)
  BY <1>1, <1>2 DEF Members, a, b
<1>4. \A n \in 1 .. a : n \in 1 .. Len(both) /\ both[n] = left[n]
  BY <1>1
<1>5. \A n \in 1 .. b : a + n \in 1 .. Len(both) /\ both[a + n] = right[n]
  BY <1>1
<1>6. Members(left) \subseteq Members(both)
  BY <1>4 DEF Members, a
<1>7. Members(right) \subseteq Members(both)
  BY <1>5 DEF Members, b
<1>8. Members(both) \subseteq Members(left) \cup Members(right)
  BY <1>3 DEF Members
<1>9. Members(both) = Members(left) \cup Members(right)
  BY <1>6, <1>7, <1>8
<1> QED BY <1>1, <1>9 DEF both, a, b

LEMMA JoinIs ==
  ASSUME NEW S, NEW left \in Seq(S), NEW right \in Seq(S), Distinct(left), Distinct(right),
         Members(left) \cap Members(right) = {}
  PROVE  /\ left \o right \in Seq(S) /\ Distinct(left \o right)
         /\ Members(left \o right) = Members(left) \cup Members(right)
<1> DEFINE both == left \o right
           a == Len(left)
           b == Len(right)
<1>1. /\ both \in Seq(S) /\ a \in Nat /\ b \in Nat /\ Len(both) = a + b
      /\ \A n \in 1 .. a : both[n] = left[n]
      /\ \A n \in 1 .. b : both[a + n] = right[n]
  OBVIOUS
<1>2. \A n \in 1 .. a + b : n \in 1 .. a \/ (n - a \in 1 .. b /\ a + (n - a) = n)
  BY <1>1
<1> HIDE DEF both, a, b
<1>3. \A n \in 1 .. a + b : \/ n \in 1 .. a /\ both[n] = left[n]
                            \/ n - a \in 1 .. b /\ both[n] = right[n - a]
  BY <1>1, <1>2
<1>4. Members(both) = Members(left) \cup Members(right)
  BY PushIs DEF both
<1>5. Distinct(both)
  <2> SUFFICES ASSUME NEW m \in 1 .. a + b, NEW n \in 1 .. a + b, m # n, both[m] = both[n]
               PROVE  FALSE
    BY <1>1 DEF Distinct
  <2>1. CASE m \in 1 .. a /\ both[m] = left[m] /\ n \in 1 .. a /\ both[n] = left[n]
    BY <2>1 DEF Distinct, a
  <2>2. CASE m \in 1 .. a /\ both[m] = left[m] /\ n - a \in 1 .. b /\ both[n] = right[n - a]
    BY <2>2 DEF Members, a, b
  <2>3. CASE m - a \in 1 .. b /\ both[m] = right[m - a] /\ n \in 1 .. a /\ both[n] = left[n]
    BY <2>3 DEF Members, a, b
  <2>4. CASE m - a \in 1 .. b /\ both[m] = right[m - a]
             /\ n - a \in 1 .. b /\ both[n] = right[n - a]
    <3>1. m - a # n - a
      BY <1>1
    <3> QED BY <2>4, <3>1 DEF Distinct, b
  <2> QED BY <1>3, <2>1, <2>2, <2>3, <2>4
<1> QED BY <1>1, <1>4, <1>5 DEF both

LEMMA AppendIs ==
  ASSUME NEW S, NEW list \in Seq(S), NEW x \in S, Distinct(list), x \notin Members(list)
  PROVE  /\ Append(list, x) \in Seq(S) /\ Distinct(Append(list, x))
         /\ Members(Append(list, x)) = Members(list) \cup {x}
         /\ Len(Append(list, x)) = Len(list) + 1 /\ Append(list, x)[Len(list) + 1] = x
         /\ \A n \in 1 .. Len(list) : Append(list, x)[n] = list[n]
<1> DEFINE more == Append(list, x)
           a == Len(list)
<1>1. /\ more \in Seq(S) /\ a \in Nat /\ Len(more) = a + 1 /\ more[a + 1] = x
      /\ \A n \in 1 .. a : more[n] = list[n]
  OBVIOUS
<1>2. \A n \in 1 .. a + 1 : n \in 1 .. a \/ n = a + 1
  BY <1>1
<1> HIDE DEF more, a
<1>3. Members(more) = Members(list) \cup {x}
  <2>1. \A n \in 1 .. Len(more) : more[n] \in Members(list) \cup {x}
    BY <1>1, <1>2 DEF Members, a
  <2>2. a + 1 \in 1 .. Len(more) /\ \A n \in 1 .. a : n \in 1 .. Len(more)
    BY <1>1
  <2> QED BY <1>1, <2>1, <2>2 DEF Members, a
<1>4. Distinct(more)
  BY <1>1, <1>2 DEF Distinct, Members, a
<1> QED BY <1>1, <1>3, <1>4 DEF more, a

LEMMA DistinctCounts ==
  ASSUME NEW S, NEW list \in Seq(S), Distinct(list)
  PROVE  IsFiniteSet(Members(list)) /\ Cardinality(Members(list)) = Len(list)
<1> DEFINE f == [n \in 1 .. Len(list) |-> list[n]]
<1>1. IsFiniteSet(1 .. Len(list)) /\ Cardinality(1 .. Len(list)) = Len(list)
  BY UpTo
<1>2. f \in Surjection(1 .. Len(list), Members(list)) /\ f \in Injection(1 .. Len(list), Members(list))
  BY DEF Surjection, Injection, IsInjective, Members, Distinct
<1> HIDE DEF f
<1>3. /\ IsFiniteSet(Members(list))
      /\ Cardinality(Members(list)) = Cardinality(1 .. Len(list)) <=>
           f \in Injection(1 .. Len(list), Members(list))
  BY <1>1, <1>2, FS_Surjection, Zenon
<1> QED BY <1>1, <1>2, <1>3

LEMMA LastOf ==
  ASSUME NEW n \in Nat, NEW T \in SUBSET (1 .. n), T # {}
  PROVE  \E m \in T : \A k \in T : k <= m
<1> DEFINE U == {n - k : k \in T}
<1>1. U \in SUBSET Nat /\ U # {}
  <2>1. \A k \in T : n - k \in Nat
    OBVIOUS
  <2>2. PICK k \in T : TRUE
    OBVIOUS
  <2>3. n - k \in U
    OBVIOUS
  <2> QED BY <2>1, <2>3
<1>2. PICK u \in U : \A v \in U : u <= v
  <2> HIDE DEF U
  <2> QED BY <1>1, LeastNatural
<1>3. PICK m \in T : u = n - m
  OBVIOUS
<1>4. \A k \in T : n - m <= n - k
  BY <1>2, <1>3
<1>5. \A k \in T : k <= m
  BY <1>4
<1> QED BY <1>5


-----------------------------------------------------------------------------
(* The loop of topological_sort: the queue holds whom the result frees.     *)

LEMMA FreeGrows ==
  ASSUME NEW nodes, NEW edges, NEW S, NEW T, S \subseteq T
  PROVE  Free(nodes, edges, S) \subseteq Free(nodes, edges, T)
  BY DEF Free

LEMMA DecrementIs ==
  ASSUME NEW degree, NEW edges, NEW id
  PROVE  Decrement(degree, edges, id) = DecrementAll(degree, edges, {id})
<1>1. \A i : {k \in Linked(edges) : edges[k].source = id /\ edges[k].target = i}
               = {k \in Linked(edges) : edges[k].source \in {id} /\ edges[k].target = i}
  OBVIOUS
<1> QED BY <1>1 DEF Decrement, DecrementAll

LEMMA EntriesAre ==
  ASSUME NEW nodes, NEW edges, Lists(nodes, edges)
  PROVE  /\ Entries(nodes, InDegree(nodes, edges)) \in Seq(Ids(nodes))
         /\ Distinct(Entries(nodes, InDegree(nodes, edges)))
         /\ Members(Entries(nodes, InDegree(nodes, edges))) = Free(nodes, edges, {})
<1> DEFINE degree == InDegree(nodes, edges)
           N == Len(nodes)
           K == {n \in 1 .. N : degree[nodes[n].id] = 0
                                /\ \A m \in 1 .. n - 1 : nodes[m].id # nodes[n].id}
           at == InOrder(K)
           c == Cardinality(K)
           list == [n \in 1 .. c |-> nodes[at[n]].id]
<1>1. N \in Nat /\ DOMAIN nodes = 1 .. N /\ K \in SUBSET (1 .. N)
  BY ListsAre
<1>2. /\ c \in Nat /\ at \in [1 .. c -> K]
      /\ \A k \in K : \E i \in 1 .. c : at[i] = k
      /\ \A i, j \in 1 .. c : i # j => at[i] # at[j]
  <2> HIDE DEF K
  <2> QED BY <1>1, InOrderIs
<1>3. Entries(nodes, degree) = list
  BY <1>1, <1>2 DEF Entries
<1>4. \A m, n \in K : nodes[m].id = nodes[n].id => m = n
  <2> SUFFICES ASSUME NEW m \in K, NEW n \in K, nodes[m].id = nodes[n].id, m < n PROVE FALSE
    <3>1. \A m, n \in K : m < n \/ n < m \/ m = n
      BY <1>1
    <3> QED BY <3>1
  <2>1. m \in 1 .. n - 1
    BY <1>1
  <2> QED BY <2>1
<1>5. \A m \in K : nodes[m].id \in Ids(nodes) /\ degree[nodes[m].id] = 0
  BY <1>1 DEF Ids
<1>6. \A i \in Ids(nodes) : degree[i] = 0 => \E m \in K : nodes[m].id = i
  <2> TAKE i \in Ids(nodes)
  <2> HAVE degree[i] = 0
  <2> DEFINE P == {n \in 1 .. N : nodes[n].id = i}
  <2>1. P \in SUBSET Nat /\ P # {}
    BY <1>1 DEF Ids
  <2>2. PICK m \in P : \A k \in P : m <= k
    <3> HIDE DEF P
    <3> QED BY <2>1, LeastNatural
  <2>3. ASSUME NEW k \in 1 .. m - 1 PROVE nodes[k].id # i
    <3>1. m \in 1 .. N /\ k \in 1 .. N /\ ~(m <= k)
      BY <1>1, <2>2
    <3> QED BY <2>2, <3>1
  <2>4. m \in K
    BY <2>2, <2>3
  <2> QED BY <2>2, <2>4
<1> HIDE DEF K, at, c
<1>7. list \in Seq(Ids(nodes)) /\ Len(list) = c
  BY <1>2, <1>5
<1>8. Distinct(list)
  <2>1. \A m, n \in 1 .. c : m # n => at[m] \in K /\ at[n] \in K /\ at[m] # at[n]
    BY <1>2
  <2> QED BY <1>4, <1>7, <2>1 DEF Distinct
<1>9. Members(list) = Zero(degree)
  <2>1. DOMAIN degree = Ids(nodes)
    BY DEF InDegree
  <2>2. \A n \in 1 .. c : list[n] \in Ids(nodes) /\ degree[list[n]] = 0
    BY <1>2, <1>5
  <2>3. \A i \in Ids(nodes) : degree[i] = 0 => \E n \in 1 .. c : list[n] = i
    BY <1>2, <1>6
  <2> HIDE DEF list, degree
  <2> QED BY <1>7, <2>1, <2>2, <2>3 DEF Members, Zero
<1>10. Zero(degree) = Free(nodes, edges, {})
  BY ZeroIsFree, InDegreeRemains
<1> HIDE DEF list
<1> QED BY <1>3, <1>7, <1>8, <1>9, <1>10

\* A node that leaves frees, once each, those of whom it was the last source.
LEMMA FreedIs ==
  ASSUME NEW nodes, NEW edges, Lists(nodes, edges), TargetsKnown(nodes, edges),
         NEW done, NEW id, id \notin done
  PROVE  LET out == Freed(Remaining(nodes, edges, done), edges, id)
         IN  /\ out \in Seq(Ids(nodes)) /\ Distinct(out)
             /\ Members(out)
                  = Free(nodes, edges, done \cup {id}) \ Free(nodes, edges, done)
<1> DEFINE degree == Remaining(nodes, edges, done)
           left == Remaining(nodes, edges, done \cup {id})
           N == Len(edges)
           out == {k \in Linked(edges) : edges[k].source = id}
           K == {k \in out : /\ degree[edges[k].target] > 0
                             /\ Decrement(degree, edges, id)[edges[k].target] = 0
                             /\ \A j \in out : j > k => edges[j].target # edges[k].target}
           list == Targets(edges, K)
           new == Free(nodes, edges, done \cup {id}) \ Free(nodes, edges, done)
<1>1. N \in Nat /\ Linked(edges) \in SUBSET (1 .. N)
  BY ListsAre DEF Linked
<1>2. Decrement(degree, edges, id) = left
  <2>1. {id} \cap done = {}
    OBVIOUS
  <2>2. Decrement(degree, edges, id) = DecrementAll(degree, edges, {id})
    BY DecrementIs, Zenon
  <2>3. DecrementAll(degree, edges, {id}) = left
    BY <2>1, LevelLeaves
  <2> QED BY <2>2, <2>3, Zenon
<1>3. /\ degree \in [Ids(nodes) -> Int] /\ left \in [Ids(nodes) -> Int]
      /\ Zero(degree) = Free(nodes, edges, done)
      /\ Zero(left) = Free(nodes, edges, done \cup {id})
  BY RemainingType, ZeroIsFree
<1>4. \A i \in Ids(nodes) : degree[i] >= 0
  BY LinkedFinite DEF Remaining, Else
<1>5. \A k \in Linked(edges) : edges[k].target \in Ids(nodes)
  BY DEF TargetsKnown
<1>6. \A i \in Ids(nodes) : i \in new <=> degree[i] > 0 /\ left[i] = 0
  <2>1. \A i \in Ids(nodes) : /\ i \in Zero(degree) <=> degree[i] = 0
                              /\ i \in Zero(left) <=> left[i] = 0
    BY <1>3 DEF Zero
  <2> HIDE DEF degree, left
  <2> QED BY <1>3, <1>4, <2>1
<1>7. new \subseteq Ids(nodes)
  BY DEF Free
<1>8. \A i \in new : \E k \in out : edges[k].target = i
  BY DEF Free
<1>9. K \in SUBSET (1 .. N) /\ \A k \in K : edges[k].target \in new
  BY <1>1, <1>2, <1>5, <1>6
<1>10. \A j, k \in K : edges[j].target = edges[k].target => j = k
  <2> SUFFICES ASSUME NEW j \in K, NEW k \in K, edges[j].target = edges[k].target, j > k
               PROVE  FALSE
    <3>1. \A j, k \in K : j > k \/ k > j \/ j = k
      BY <1>1
    <3> QED BY <3>1
  <2> QED OBVIOUS
<1>11. ASSUME NEW i \in new PROVE \E k \in K : edges[k].target = i
  <2> DEFINE T == {k \in out : edges[k].target = i}
  <2>1. T \in SUBSET (1 .. N) /\ T # {}
    BY <1>1, <1>8
  <2>2. PICK m \in T : \A k \in T : k <= m
    <3> HIDE DEF T
    <3> QED BY <1>1, <2>1, LastOf
  <2>3. \A j \in out : j > m => edges[j].target # i
    <3> SUFFICES ASSUME NEW j \in out, j > m, edges[j].target = i PROVE FALSE
      OBVIOUS
    <3>1. j \in T /\ j \in Nat /\ m \in Nat /\ j <= m
      BY <1>1, <2>2
    <3> QED BY <3>1
  <2>4. degree[i] > 0 /\ left[i] = 0 /\ i \in Ids(nodes)
    BY <1>6, <1>7
  <2>5. m \in out /\ edges[m].target = i
    BY <2>2
  <2> HIDE DEF degree, left, out
  <2>6. m \in K
    BY <1>2, <2>3, <2>4, <2>5
  <2> QED BY <2>5, <2>6
<1>12. Freed(degree, edges, id) = list
  BY DEF Freed
<1>13. {edges[k].target : k \in K} = new
  <2> HIDE DEF K, new
  <2> QED BY <1>9, <1>11
<1>14. list \in Seq(new) /\ Members(list) = new /\ Distinct(list)
  <2> HIDE DEF K, new, N
  <2>0. N \in Nat /\ K \in SUBSET (1 .. N)
    BY <1>1, <1>9
  <2> HIDE DEF list
  <2>1. list \in Seq(new)
    BY <1>9, <2>0, TargetsAre DEF list
  <2>2. {list[i] : i \in 1 .. Len(list)} = {edges[k].target : k \in K}
    BY <1>9, <2>0, TargetsAre DEF list
  <2>3. \A i, j \in 1 .. Len(list) : i # j => list[i] # list[j]
    BY <1>9, <1>10, <2>0, TargetsAre DEF list
  <2> QED BY <1>13, <2>1, <2>2, <2>3 DEF Members, Distinct
<1>15. list \in Seq(Ids(nodes))
  <2> HIDE DEF new, list
  <2> QED BY <1>7, <1>14
<1> HIDE DEF list, new, degree
<1>16. LET o == Freed(degree, edges, id)
       IN o \in Seq(Ids(nodes)) /\ Distinct(o) /\ Members(o) = new
  BY <1>12, <1>14, <1>15
<1> QED BY <1>16 DEF new, degree

\* No one comes before a source of an edge into it.
Ordered(edges, order) ==
    \A k \in Linked(edges), n \in 1 .. Len(order) :
      edges[k].target = order[n] => \E m \in 1 .. Len(order) : m < n /\ edges[k].source = order[m]

\* The loop's states: the queue holds those whom the result so far frees.
Sorting(nodes, edges, s) ==
    /\ s \in SortState(nodes)
    /\ Distinct(s.result) /\ Distinct(s.queue)
    /\ Members(s.result) \cap Members(s.queue) = {}
    /\ s.degree = Remaining(nodes, edges, Members(s.result))
    /\ Free(nodes, edges, Members(s.result)) = Members(s.result) \cup Members(s.queue)
    /\ Members(s.result) \subseteq AllDone(nodes, edges)
    /\ Ordered(edges, s.result)

LEMMA SortStartIs ==
  ASSUME NEW nodes, NEW edges, Lists(nodes, edges)
  PROVE  Sorting(nodes, edges, SortStart(nodes, edges))
<1> DEFINE s == SortStart(nodes, edges)
<1>1. /\ s.queue = Entries(nodes, InDegree(nodes, edges)) /\ s.result = << >>
      /\ s.degree = Remaining(nodes, edges, {})
  BY InDegreeRemains DEF SortStart
<1>2. /\ s.queue \in Seq(Ids(nodes)) /\ Distinct(s.queue)
      /\ Members(s.queue) = Free(nodes, edges, {})
  BY <1>1, EntriesAre
<1>3. s \in SortState(nodes)
  <2>1. s.degree \in [Ids(nodes) -> Int] /\ s.result \in Seq(Ids(nodes))
    BY <1>1, RemainingType
  <2>2. s = [queue |-> s.queue, degree |-> s.degree, result |-> s.result]
    BY DEF SortStart
  <2> HIDE DEF s
  <2> QED BY <1>2, <2>1, <2>2 DEF SortState
<1> HIDE DEF s
<1>4. Members(s.result) = {} /\ Distinct(s.result) /\ Ordered(edges, s.result)
  BY <1>1 DEF Members, Distinct, Ordered
<1> QED BY <1>1, <1>2, <1>3, <1>4 DEF Sorting, s

\* A round moves the head of the queue to the result and queues whom it frees.
LEMMA SortBodyIs ==
  ASSUME NEW nodes, NEW edges, Lists(nodes, edges), TargetsKnown(nodes, edges),
         NEW s, Sorting(nodes, edges, s), s.queue # << >>
  PROVE  /\ Sorting(nodes, edges, SortBody(nodes, edges)[s])
         /\ Len(SortBody(nodes, edges)[s].result) = Len(s.result) + 1
<1> DEFINE id == Head(s.queue)
           R == Members(s.result)
           Q == Members(s.queue)
           freed == Freed(s.degree, edges, id)
           t == SortBody(nodes, edges)[s]
           FreeOf(S) == Free(nodes, edges, S)
<1>1. /\ s.queue \in Seq(Ids(nodes)) /\ s.result \in Seq(Ids(nodes))
      /\ Distinct(s.result) /\ Distinct(s.queue) /\ R \cap Q = {}
      /\ s.degree = Remaining(nodes, edges, R) /\ FreeOf(R) = R \cup Q
      /\ R \subseteq AllDone(nodes, edges) /\ Ordered(edges, s.result)
  BY DEF Sorting, SortState
<1>2. t = [queue |-> Tail(s.queue) \o freed, degree |-> Decrement(s.degree, edges, id),
           result |-> Append(s.result, id)]
  BY DEF SortBody, Sorting
<1>3. t.queue = Tail(s.queue) \o freed /\ t.degree = Decrement(s.degree, edges, id)
      /\ t.result = Append(s.result, id)
  <2> HIDE DEF t, freed, id
  <2> QED BY <1>2
<1>4. /\ id \in Ids(nodes) /\ Tail(s.queue) \in Seq(Ids(nodes)) /\ Distinct(Tail(s.queue))
      /\ Q = Members(Tail(s.queue)) \cup {id} /\ id \notin Members(Tail(s.queue))
  BY <1>1, TailIs
<1>5. id \notin R
  BY <1>1, <1>4
<1>6. /\ freed \in Seq(Ids(nodes)) /\ Distinct(freed)
      /\ Members(freed) = FreeOf(R \cup {id}) \ FreeOf(R)
  <2>1. freed = Freed(Remaining(nodes, edges, R), edges, id)
    BY <1>1
  <2> HIDE DEF freed, R, id
  <2> QED BY <1>5, <2>1, FreedIs
<1>7. t.degree = Remaining(nodes, edges, R \cup {id})
  <2>1. {id} \cap R = {}
    BY <1>5
  <2>2. t.degree = DecrementAll(s.degree, edges, {id})
    BY <1>3, DecrementIs
  <2> HIDE DEF id, R, t
  <2> QED BY <1>1, <2>1, <2>2, LevelLeaves
<1> HIDE DEF id, R, Q, freed, t, FreeOf
<1>8. /\ t.queue \in Seq(Ids(nodes)) /\ Distinct(t.queue)
      /\ Members(t.queue) = Members(Tail(s.queue)) \cup Members(freed)
  <2>1. Members(Tail(s.queue)) \cap Members(freed) = {}
    BY <1>1, <1>4, <1>6
  <2> DEFINE rest == Tail(s.queue)
  <2> HIDE DEF rest
  <2>2. /\ rest \in Seq(Ids(nodes)) /\ freed \in Seq(Ids(nodes)) /\ Distinct(rest)
        /\ Distinct(freed) /\ Members(rest) \cap Members(freed) = {}
    BY <1>4, <1>6, <2>1 DEF rest
  <2>3. /\ rest \o freed \in Seq(Ids(nodes)) /\ Distinct(rest \o freed)
        /\ Members(rest \o freed) = Members(rest) \cup Members(freed)
    BY <2>2, JoinIs
  <2> QED BY <1>3, <2>3 DEF rest
<1>9. /\ t.result \in Seq(Ids(nodes)) /\ Distinct(t.result)
      /\ Members(t.result) = R \cup {id} /\ Len(t.result) = Len(s.result) + 1
      /\ t.result[Len(s.result) + 1] = id
      /\ \A n \in 1 .. Len(s.result) : t.result[n] = s.result[n]
  <2>1. id \notin Members(s.result)
    BY <1>5 DEF R
  <2> QED BY <1>1, <1>3, <1>4, <2>1, AppendIs DEF R
<1>10. FreeOf(R) \subseteq FreeOf(R \cup {id})
  BY FreeGrows DEF FreeOf
<1>11. FreeOf(R \cup {id}) = Members(t.result) \cup Members(t.queue)
  BY <1>1, <1>4, <1>6, <1>8, <1>9, <1>10
<1>12. Members(t.result) \cap Members(t.queue) = {}
  BY <1>1, <1>4, <1>6, <1>8, <1>9
<1>13. id \in FreeOf(R)
  BY <1>1, <1>4
<1>14. R \cup {id} \subseteq AllDone(nodes, edges)
  <2>1. FreeOf(R) \subseteq FreeOf(AllDone(nodes, edges))
    BY <1>1, FreeGrows DEF FreeOf
  <2>2. FreeOf(AllDone(nodes, edges)) = AllDone(nodes, edges)
    BY LevelsPartition DEF FreeOf
  <2> QED BY <1>1, <1>13, <2>1, <2>2
<1>15. Ordered(edges, t.result)
  <2> SUFFICES ASSUME NEW k \in Linked(edges), NEW n \in 1 .. Len(t.result),
                      edges[k].target = t.result[n]
               PROVE  \E m \in 1 .. Len(t.result) : m < n /\ edges[k].source = t.result[m]
    BY DEF Ordered
  <2> DEFINE a == Len(s.result)
  <2>1. a \in Nat /\ Len(t.result) = a + 1 /\ (n \in 1 .. a \/ n = a + 1)
    BY <1>1, <1>9
  <2>2. \E m \in 1 .. a : m < n /\ edges[k].source = s.result[m]
    <3>1. CASE n \in 1 .. a
      BY <1>1, <1>9, <3>1 DEF Ordered
    <3>2. CASE n = a + 1
      <4>1. edges[k].target = id
        BY <1>9, <3>2
      <4>2. edges[k].source \in Members(s.result)
        BY <1>13, <4>1 DEF FreeOf, Free, R
      <4>3. \A m \in 1 .. a : m < n
        BY <2>1, <3>2
      <4> QED BY <4>2, <4>3 DEF Members
    <3> QED BY <2>1, <3>1, <3>2
  <2>3. PICK m \in 1 .. a : m < n /\ edges[k].source = s.result[m]
    BY <2>2
  <2>4. m \in 1 .. Len(t.result)
    BY <2>1
  <2> HIDE DEF a
  <2> QED BY <1>9, <2>3, <2>4 DEF a
<1>16. t \in SortState(nodes)
  <2>1. t.degree \in [Ids(nodes) -> Int]
    BY <1>7, RemainingType
  <2>2. t = [queue |-> t.queue, degree |-> t.degree, result |-> t.result]
    BY <1>2
  <2> QED BY <1>8, <1>9, <2>1, <2>2 DEF SortState
<1>17. Sorting(nodes, edges, t)
  BY <1>7, <1>8, <1>9, <1>11, <1>12, <1>14, <1>15, <1>16 DEF Sorting, FreeOf
<1> QED BY <1>9, <1>17 DEF t

LEMMA SortBodyType ==
  ASSUME NEW nodes, NEW edges, Lists(nodes, edges), TargetsKnown(nodes, edges)
  PROVE  SortBody(nodes, edges) \in [SortState(nodes) -> SortState(nodes)]
<1> SUFFICES ASSUME NEW s \in SortState(nodes), s.queue # << >>
             PROVE  SortBody(nodes, edges)[s] \in SortState(nodes)
  BY DEF SortBody
<1> DEFINE id == Head(s.queue)
           freed == Freed(s.degree, edges, id)
           left == Decrement(s.degree, edges, id)
<1>1. /\ s.queue \in Seq(Ids(nodes)) /\ s.result \in Seq(Ids(nodes))
      /\ s.degree \in [Ids(nodes) -> Int] /\ id \in Ids(nodes)
      /\ Tail(s.queue) \in Seq(Ids(nodes))
  BY DEF SortState
<1>2. left \in [Ids(nodes) -> Int]
  <2> HIDE DEF id
  <2> QED BY <1>1, DecrementIs, DecrementType
<1>3. freed \in Seq(Ids(nodes))
  <2> DEFINE out == {k \in Linked(edges) : edges[k].source = id}
             K == {k \in out : /\ s.degree[edges[k].target] > 0
                               /\ left[edges[k].target] = 0
                               /\ \A j \in out : j > k => edges[j].target # edges[k].target}
             N == Len(edges)
  <2>1. N \in Nat /\ K \in SUBSET (1 .. N) /\ \A k \in K : edges[k].target \in Ids(nodes)
    BY ListsAre DEF Linked, TargetsKnown
  <2>2. freed = Targets(edges, K)
    BY DEF Freed
  <2> HIDE DEF K, N, freed
  <2> QED BY <2>1, <2>2, TargetsAre
<1> HIDE DEF id, freed, left
<1>4. [queue |-> Tail(s.queue) \o freed, degree |-> left, result |-> Append(s.result, id)]
        \in SortState(nodes)
  BY <1>1, <1>2, <1>3 DEF SortState
<1> QED BY <1>4 DEF SortBody, id, freed, left

\* After n rounds the result holds n ids, or all that could be queued.
LEMMA SortRounds ==
  ASSUME NEW nodes, NEW edges, Lists(nodes, edges), TargetsKnown(nodes, edges),
         NEW n \in Nat
  PROVE  LET s == Rounds(SortStart(nodes, edges), SortBody(nodes, edges))[n]
         IN  Sorting(nodes, edges, s) /\ (s.queue = << >> \/ Len(s.result) = n)
<1> DEFINE R == Rounds(SortStart(nodes, edges), SortBody(nodes, edges))
           Good(m) == Sorting(nodes, edges, R[m]) /\ (R[m].queue = << >> \/ Len(R[m].result) = m)
           T == {m \in Nat : Good(m)}
<1>1. R[0] = SortStart(nodes, edges) /\ \A m \in Nat : R[m + 1] = SortBody(nodes, edges)[R[m]]
  <2>1. SortStart(nodes, edges) \in SortState(nodes)
    BY SortStartIs DEF Sorting
  <2> QED BY <2>1, SortBodyType, RoundsAre
<1> HIDE DEF R
<1>2. Good(0)
  <2>1. Sorting(nodes, edges, R[0])
    BY <1>1, SortStartIs
  <2>2. R[0].result = << >>
    BY <1>1 DEF SortStart
  <2> QED BY <2>1, <2>2
<1>3. ASSUME NEW m \in T PROVE m + 1 \in T
  <2>1. m \in Nat /\ Good(m) /\ R[m + 1] = SortBody(nodes, edges)[R[m]]
    BY <1>1
  <2>2. CASE R[m].queue = << >>
    <3>1. R[m + 1] = R[m]
      BY <2>1, <2>2 DEF SortBody, Sorting
    <3> QED BY <2>1, <2>2, <3>1
  <2>3. CASE R[m].queue # << >>
    <3>1. Sorting(nodes, edges, R[m + 1]) /\ Len(R[m + 1].result) = Len(R[m].result) + 1
      BY <2>1, <2>3, SortBodyIs
    <3> QED BY <2>1, <2>3, <3>1
  <2> QED BY <2>2, <2>3
<1>4. T = Nat
  <2>1. T \in SUBSET Nat /\ 0 \in T
    BY <1>2
  <2> HIDE DEF T
  <2> QED BY <1>3, <2>1, SetInduction
<1>5. Good(n)
  BY <1>4
<1>6. LET s == R[n] IN Sorting(nodes, edges, s) /\ (s.queue = << >> \/ Len(s.result) = n)
  BY <1>5
<1> QED BY <1>6 DEF R

\* So the sort lists everybody who is done for good, once each and in order.
LEMMA SortStepsAre ==
  ASSUME NEW nodes, NEW edges, Lists(nodes, edges), TargetsKnown(nodes, edges)
  PROVE  /\ SortSteps(nodes, edges) \in Seq(Ids(nodes))
         /\ Distinct(SortSteps(nodes, edges)) /\ Ordered(edges, SortSteps(nodes, edges))
         /\ Members(SortSteps(nodes, edges)) = AllDone(nodes, edges)
<1> DEFINE N == Cardinality(Ids(nodes))
           s == Rounds(SortStart(nodes, edges), SortBody(nodes, edges))[N]
           R == Members(s.result)
           D == Done(nodes, edges)
<1>1. N \in Nat /\ IsFiniteSet(Ids(nodes))
  BY IdsFinite
<1>2. Sorting(nodes, edges, s) /\ (s.queue = << >> \/ Len(s.result) = N)
  <2> HIDE DEF N
  <2> QED BY <1>1, SortRounds
<1>3. SortSteps(nodes, edges) = s.result
  BY DEF SortSteps
<1> HIDE DEF s
<1>4. /\ s.result \in Seq(Ids(nodes)) /\ s.queue \in Seq(Ids(nodes)) /\ Distinct(s.result)
      /\ R \cap Members(s.queue) = {}
      /\ Free(nodes, edges, R) = R \cup Members(s.queue)
      /\ R \subseteq AllDone(nodes, edges) /\ Ordered(edges, s.result)
  BY <1>2 DEF Sorting, SortState
<1>5. Members(s.queue) = {}
  <2>1. CASE s.queue = << >>
    BY <2>1 DEF Members
  <2>2. CASE Len(s.result) = N
    <3>1. R \subseteq Ids(nodes) /\ Members(s.queue) \subseteq Ids(nodes)
      BY <1>4 DEF Members
    <3>2. Cardinality(R) = N
      BY <1>4, <2>2, DistinctCounts
    <3>3. R = Ids(nodes)
      BY <1>1, <3>1, <3>2, FS_Subset
    <3> QED BY <1>4, <3>1, <3>3
  <2> QED BY <1>2, <2>1, <2>2
<1>6. Free(nodes, edges, R) = R
  BY <1>4, <1>5
<1>7. \A n \in Nat : D[n] \subseteq R
  <2> DEFINE T == {n \in Nat : D[n] \subseteq R}
  <2>1. 0 \in T /\ T \in SUBSET Nat
    BY DoneIs
  <2>2. ASSUME NEW n \in T PROVE n + 1 \in T
    <3>1. D[n + 1] = Free(nodes, edges, D[n])
      BY DoneIs
    <3>2. Free(nodes, edges, D[n]) \subseteq Free(nodes, edges, R)
      <4>1. D[n] \subseteq R
        OBVIOUS
      <4> HIDE DEF R, D
      <4> QED BY <4>1, FreeGrows
    <3> QED BY <1>6, <3>1, <3>2
  <2>3. T = Nat
    <3> HIDE DEF T
    <3> QED BY <2>1, <2>2, SetInduction
  <2> QED BY <2>3
<1>8. R = AllDone(nodes, edges)
  BY <1>1, <1>4, <1>7 DEF AllDone
<1> QED BY <1>3, <1>4, <1>8

\* The order topological_sort answers with: every id once, sources before targets.
Sorted(nodes, edges, order) ==
    /\ order \in Seq(Ids(nodes)) /\ Distinct(order) /\ Members(order) = Ids(nodes)
    /\ Ordered(edges, order)

\* Of whatever lists are stored, the sort and the levels have the same outcome,
\* and an order the sort answers with holds every node after its dependencies.
THEOREM SortAgrees ==
  ASSUME NEW nodes, NEW edges, Lists(nodes, edges)
  PROVE  /\ TopologicalSort(nodes, edges).outcome = TopologicalLevels(nodes, edges).outcome
         /\ TopologicalSort(nodes, edges).outcome = "ok" =>
              Sorted(nodes, edges, TopologicalSort(nodes, edges).order)
<1>1. CASE ~TargetsKnown(nodes, edges)
  BY <1>1 DEF TopologicalSort, TopologicalLevels
<1>2. CASE TargetsKnown(nodes, edges)
  <2> DEFINE order == SortSteps(nodes, edges)
             all == AllDone(nodes, edges)
  <2>1. /\ order \in Seq(Ids(nodes)) /\ Distinct(order) /\ Ordered(edges, order)
        /\ Members(order) = all
    BY <1>2, SortStepsAre
  <2>2. Len(order) = Cardinality(all)
    BY <2>1, DistinctCounts
  <2>3. UNION SX!ToSet(LevelSteps(nodes, edges)) = all
    BY LevelsPartition
  <2>4. TopologicalSort(nodes, edges) =
          IF Cardinality(all) # Len(nodes) THEN [outcome |-> "cycle", order |-> << >>]
          ELSE [outcome |-> "ok", order |-> order]
    BY <1>2, <2>2 DEF TopologicalSort
  <2>5. TopologicalLevels(nodes, edges).outcome =
          IF Cardinality(all) # Len(nodes) THEN "cycle" ELSE "ok"
    BY <1>2, <2>3 DEF TopologicalLevels
  <2>6. ASSUME Cardinality(all) = Len(nodes) PROVE all = Ids(nodes)
    <3>1. all \in SUBSET Ids(nodes) /\ IsFiniteSet(Ids(nodes))
      BY IdsFinite, DoneIs DEF AllDone
    <3>2. /\ Cardinality(all) <= Cardinality(Ids(nodes))
          /\ Cardinality(Ids(nodes)) = Cardinality(all) => Ids(nodes) = all
      BY <3>1, FS_Subset
    <3> QED BY <2>6, <3>2, IdsFinite, ListsAre
  <2> HIDE DEF order, all
  <2> QED BY <2>1, <2>4, <2>5, <2>6 DEF Sorted
<1> QED BY <1>1, <1>2

-----------------------------------------------------------------------------
(* Walks, and what no walk escapes.                                         *)

\* The edges both of whose ends are nodes.
Between(nodes, edges) ==
    {k \in DOMAIN edges : {edges[k].source, edges[k].target} \subseteq Ids(nodes)}

EndsAfter(nodes, edges, start) == Rounds(start, Walk(nodes, edges))

LEMMA EndsAre ==
  ASSUME NEW nodes, NEW edges, NEW start \in SUBSET Ids(nodes)
  PROVE  /\ EndsAfter(nodes, edges, start)[0] = start
         /\ \A n \in Nat :
              /\ EndsAfter(nodes, edges, start)[n] \subseteq Ids(nodes)
              /\ EndsAfter(nodes, edges, start)[n + 1] =
                   {i \in Ids(nodes) : \E k \in Between(nodes, edges) :
                      edges[k].source \in EndsAfter(nodes, edges, start)[n] /\ edges[k].target = i}
<1> DEFINE E == EndsAfter(nodes, edges, start)
           graph == GraphOf(nodes, edges)
           Next_(S) == {i \in Ids(nodes) : \E k \in Between(nodes, edges) :
                          edges[k].source \in S /\ edges[k].target = i}
<1>1. ASSUME NEW S \in SUBSET Ids(nodes) PROVE G!AllSuccessors(graph, S) = Next_(S)
  <2>1. /\ graph.node = Ids(nodes)
        /\ graph.edge = {<<edges[k].source, edges[k].target>> : k \in DOMAIN edges}
                          \cap (Ids(nodes) \X Ids(nodes))
    BY DEF GraphOf
  <2>2. ASSUME NEW i \in Ids(nodes), NEW j \in Ids(nodes)
        PROVE  <<j, i>> \in graph.edge <=>
                 \E k \in Between(nodes, edges) : edges[k].source = j /\ edges[k].target = i
    <3>1. <<j, i>> \in Ids(nodes) \X Ids(nodes)
      OBVIOUS
    <3>2. <<j, i>> \in graph.edge <=>
            \E k \in DOMAIN edges : <<j, i>> = <<edges[k].source, edges[k].target>>
      BY <2>1, <3>1
    <3>3. <<j, i>> \in graph.edge <=>
            \E k \in DOMAIN edges : j = edges[k].source /\ i = edges[k].target
      BY <3>2
    <3> QED BY <3>3 DEF Between
  <2>3. \A i : i \in G!AllSuccessors(graph, S) <=>
                 \E j \in S : i \in graph.node /\ <<j, i>> \in graph.edge
    <3> HIDE DEF graph
    <3>1. \A j, i : i \in G!Successors(graph, j) <=> i \in graph.node /\ <<j, i>> \in graph.edge
      BY DEF G!Successors
    <3>2. \A i : i \in G!AllSuccessors(graph, S) <=> \E j \in S : i \in G!Successors(graph, j)
      BY Zenon DEF G!AllSuccessors
    <3> QED BY <3>1, <3>2
  <2> HIDE DEF graph
  <2>4. \A i \in G!AllSuccessors(graph, S) : i \in Next_(S)
    <3> TAKE i \in G!AllSuccessors(graph, S)
    <3>1. PICK j \in S : i \in graph.node /\ <<j, i>> \in graph.edge
      BY <2>3
    <3>2. i \in Ids(nodes) /\ j \in Ids(nodes)
      BY <2>1, <3>1
    <3> QED BY <2>2, <3>1, <3>2
  <2>5. \A i \in Next_(S) : i \in G!AllSuccessors(graph, S)
    BY <2>1, <2>2, <2>3 DEF Between
  <2> HIDE DEF Next_
  <2> QED BY <2>4, <2>5
<1>2. Walk(nodes, edges) \in [SUBSET Ids(nodes) -> SUBSET Ids(nodes)]
  <2>1. \A S \in SUBSET Ids(nodes) : G!AllSuccessors(graph, S) \in SUBSET Ids(nodes)
    BY <1>1
  <2> QED BY <2>1 DEF Walk
<1>3. \A S \in SUBSET Ids(nodes) : Walk(nodes, edges)[S] = Next_(S)
  BY <1>1 DEF Walk
<1>4. E \in [Nat -> SUBSET Ids(nodes)] /\ E[0] = start
      /\ \A n \in Nat : E[n + 1] = Walk(nodes, edges)[E[n]]
  <2> DEFINE body == Walk(nodes, edges)
             all == SUBSET Ids(nodes)
  <2>1. start \in all /\ body \in [all -> all]
    BY <1>2
  <2>2. E = Rounds(start, body)
    BY DEF EndsAfter
  <2> HIDE DEF all, body, E
  <2>3. E \in [Nat -> all] /\ E[0] = start /\ \A n \in Nat : E[n + 1] = body[E[n]]
    BY <2>1, <2>2, RoundsAre
  <2> QED BY <2>3 DEF all, body
<1> HIDE DEF E
<1>5. \A n \in Nat : E[n] \in SUBSET Ids(nodes) /\ E[n + 1] = Next_(E[n])
  <2> HIDE DEF Next_
  <2> QED BY <1>3, <1>4
<1> QED BY <1>4, <1>5 DEF E

LEMMA WalkEndsAre ==
  ASSUME NEW nodes, NEW edges, NEW start, NEW n \in 0 .. Cardinality(Ids(nodes))
  PROVE  WalkEnds(nodes, edges, start)[n] = EndsAfter(nodes, edges, start)[n]
  BY DEF WalkEnds, EndsAfter

-----------------------------------------------------------------------------
(* Of a well-formed workflow, a node is done in the round after its rank.   *)

LEMMA EndsAreNotDone ==
  ASSUME NEW nodes, NEW edges, WellFormed(nodes, edges), Missing \notin Ids(nodes), NEW n \in Nat
  PROVE  EndsAfter(nodes, edges, Ids(nodes))[n] = Ids(nodes) \ Done(nodes, edges)[n]
<1> DEFINE E == EndsAfter(nodes, edges, Ids(nodes))
           D == Done(nodes, edges)
           T == {m \in Nat : E[m] = Ids(nodes) \ D[m]}
<1>1. Linked(edges) = DOMAIN edges /\ Between(nodes, edges) = DOMAIN edges
  BY DEF WellFormed, Linked, Between
<1>2. 0 \in T
  BY EndsAre, DoneIs
<1>3. ASSUME NEW m \in T PROVE m + 1 \in T
  <2>1. m \in Nat /\ E[m] = Ids(nodes) \ D[m]
    OBVIOUS
  <2>2. /\ E[m + 1] = {i \in Ids(nodes) : \E k \in DOMAIN edges :
                         edges[k].source \in E[m] /\ edges[k].target = i}
        /\ D[m + 1] = {i \in Ids(nodes) :
                         \A k \in DOMAIN edges : edges[k].target = i => edges[k].source \in D[m]}
    BY <1>1, <2>1, EndsAre, DoneIs DEF Free
  <2>3. \A k \in DOMAIN edges : edges[k].source \in Ids(nodes)
    BY DEF WellFormed
  <2> HIDE DEF E, D
  <2>4. \A i : i \in E[m + 1] <=> i \in Ids(nodes) /\ i \notin D[m + 1]
    BY <2>1, <2>2, <2>3
  <2>5. E[m + 1] = Ids(nodes) \ D[m + 1]
    BY <2>4
  <2> QED BY <2>1, <2>5 DEF E, D
<1>4. T = Nat
  <2>1. T \in SUBSET Nat
    OBVIOUS
  <2> HIDE DEF T
  <2> QED BY <1>2, <1>3, <2>1, SetInduction
<1> QED BY <1>4

LEMMA AcyclicIs ==
  ASSUME NEW nodes, NEW edges, Lists(nodes, edges), WellFormed(nodes, edges), Missing \notin Ids(nodes)
  PROVE  Acyclic(nodes, edges) <=> AllDone(nodes, edges) = Ids(nodes)
<1> DEFINE N == Cardinality(Ids(nodes))
           D == Done(nodes, edges)
<1>1. N \in Nat
  BY IdsFinite
<1>2. Acyclic(nodes, edges) <=> EndsAfter(nodes, edges, Ids(nodes))[N] = {}
  BY <1>1, WalkEndsAre DEF Acyclic
<1>3. EndsAfter(nodes, edges, Ids(nodes))[N] = Ids(nodes) \ D[N] /\ D[N] \subseteq Ids(nodes)
  BY <1>1, EndsAreNotDone, DoneIs
<1>4. AllDone(nodes, edges) = D[N]
  BY DEF AllDone
<1> HIDE DEF D, N
<1> QED BY <1>2, <1>3, <1>4

LEMMA AllDoneCounts ==
  ASSUME NEW nodes, NEW edges, Lists(nodes, edges)
  PROVE  Cardinality(AllDone(nodes, edges)) = Len(nodes) <=>
           AllDone(nodes, edges) = Ids(nodes) /\ Cardinality(Ids(nodes)) = Len(nodes)
<1> DEFINE all == AllDone(nodes, edges)
<1>1. all \in SUBSET Ids(nodes)
  BY IdsFinite, DoneIs DEF AllDone
<1> HIDE DEF all
<1>2. /\ IsFiniteSet(all) /\ Cardinality(all) <= Cardinality(Ids(nodes))
      /\ Cardinality(Ids(nodes)) = Cardinality(all) => Ids(nodes) = all
  BY <1>1, IdsFinite, FS_Subset
<1>3. /\ Cardinality(all) \in Nat /\ Cardinality(Ids(nodes)) \in Nat
      /\ Cardinality(Ids(nodes)) <= Len(nodes) /\ Len(nodes) \in Nat
  BY <1>2, FS_CardinalityType, IdsFinite, ListsAre
<1>4. Cardinality(all) = Len(nodes) => Ids(nodes) = all /\ Cardinality(Ids(nodes)) = Len(nodes)
  BY <1>2, <1>3
<1>5. Ids(nodes) = all /\ Cardinality(Ids(nodes)) = Len(nodes) => Cardinality(all) = Len(nodes)
  OBVIOUS
<1> QED BY <1>4, <1>5 DEF all

-----------------------------------------------------------------------------
(* Levels and ranks, the sort, and the validator, of any lists.             *)

LEMMA LevelsOf ==
  ASSUME NEW nodes, NEW edges, Lists(nodes, edges), WellFormed(nodes, edges), Missing \notin Ids(nodes)
  PROVE  LET got == TopologicalLevels(nodes, edges) IN
         IF Acyclic(nodes, edges)
           THEN /\ got.outcome = "ok"
                /\ \A l \in DOMAIN got.levels : got.levels[l] = OfRank(nodes, edges, l - 1)
           ELSE got.outcome = "cycle"
<1> DEFINE got == TopologicalLevels(nodes, edges)
           N == Cardinality(Ids(nodes))
           D == Done(nodes, edges)
           E == EndsAfter(nodes, edges, Ids(nodes))
<1>1. PICK L \in 0 .. N :
        /\ LevelSteps(nodes, edges) = [l \in 1 .. L |-> NewAt(nodes, edges, l)]
        /\ UNION SX!ToSet(LevelSteps(nodes, edges)) = AllDone(nodes, edges)
  BY LevelsPartition
<1>2. TargetsKnown(nodes, edges)
  BY DEF TargetsKnown, WellFormed, Linked
<1>3. Cardinality(AllDone(nodes, edges)) = Len(nodes) <=> Acyclic(nodes, edges)
  BY AcyclicIs, AllDoneCounts DEF WellFormed
<1>4. got = IF Cardinality(AllDone(nodes, edges)) # Len(nodes)
              THEN [outcome |-> "cycle", levels |-> << >>]
              ELSE [outcome |-> "ok", levels |-> LevelSteps(nodes, edges)]
  BY <1>1, <1>2 DEF TopologicalLevels
<1>5. ASSUME NEW l \in 1 .. L PROVE NewAt(nodes, edges, l) = OfRank(nodes, edges, l - 1)
  <2>1. N \in Nat
    BY IdsFinite
  <2> HIDE DEF N
  <2>2. l \in Nat /\ l - 1 \in Nat /\ l \in 0 .. N /\ l - 1 \in 0 .. N /\ (l - 1) + 1 = l
    BY <2>1
  <2>3. OfRank(nodes, edges, l - 1) = E[l - 1] \ E[l]
    <3>1. OfRank(nodes, edges, l - 1) =
            WalkEnds(nodes, edges, Ids(nodes))[l - 1] \ WalkEnds(nodes, edges, Ids(nodes))[l]
      BY <2>2 DEF OfRank
    <3> QED BY <2>2, <3>1, WalkEndsAre DEF N
  <2>4. E[l - 1] = Ids(nodes) \ D[l - 1] /\ E[l] = Ids(nodes) \ D[l]
    BY <2>2, EndsAreNotDone
  <2>5. D[l] \subseteq Ids(nodes) /\ NewAt(nodes, edges, l) = D[l] \ D[l - 1]
    BY <2>2, DoneIs DEF NewAt
  <2> HIDE DEF D, E
  <2> QED BY <2>3, <2>4, <2>5
<1> HIDE DEF got
<1>6. CASE Acyclic(nodes, edges)
  <2>1. got.outcome = "ok" /\ got.levels = [l \in 1 .. L |-> NewAt(nodes, edges, l)]
    BY <1>1, <1>3, <1>4, <1>6
  <2>2. \A l \in DOMAIN got.levels : got.levels[l] = OfRank(nodes, edges, l - 1)
    BY <1>5, <2>1
  <2> QED BY <1>6, <2>1, <2>2 DEF got
<1>7. CASE ~Acyclic(nodes, edges)
  <2>1. got.outcome = "cycle"
    BY <1>3, <1>4, <1>7
  <2> QED BY <1>7, <2>1 DEF got
<1> QED BY <1>6, <1>7

\* The sort's order, said of positions.
LEMMA SortOf ==
  ASSUME NEW nodes, NEW edges, Lists(nodes, edges)
  PROVE  LET sort == TopologicalSort(nodes, edges)
             at(i) == CHOOSE n \in DOMAIN sort.order : sort.order[n] = i
         IN  /\ sort.outcome = TopologicalLevels(nodes, edges).outcome
             /\ sort.outcome = "ok" =>
                  /\ {sort.order[n] : n \in DOMAIN sort.order} = Ids(nodes)
                  /\ \A k \in Linked(edges) : at(edges[k].source) < at(edges[k].target)
<1> DEFINE sort == TopologicalSort(nodes, edges)
           order == sort.order
           at(i) == CHOOSE n \in DOMAIN sort.order : sort.order[n] = i
<1>1. /\ sort.outcome = TopologicalLevels(nodes, edges).outcome
      /\ sort.outcome = "ok" => Sorted(nodes, edges, order)
  BY SortAgrees
<1>2. sort.outcome = "ok" => TargetsKnown(nodes, edges)
  BY DEF TopologicalSort
<1> HIDE DEF sort
<1>3. ASSUME sort.outcome = "ok"
      PROVE  /\ {order[n] : n \in DOMAIN order} = Ids(nodes)
             /\ \A k \in Linked(edges) : at(edges[k].source) < at(edges[k].target)
  <2>1. /\ order \in Seq(Ids(nodes)) /\ Distinct(order) /\ Members(order) = Ids(nodes)
        /\ Ordered(edges, order)
    BY <1>1, <1>3 DEF Sorted
  <2>2. DOMAIN order = 1 .. Len(order)
    BY <2>1
  <2> HIDE DEF order
  <2>3. ASSUME NEW n \in 1 .. Len(order) PROVE at(order[n]) = n
    <3>1. at(order[n]) \in 1 .. Len(order) /\ order[at(order[n])] = order[n]
      BY <2>2 DEF order
    <3> QED BY <2>1, <3>1 DEF Distinct
  <2>4. ASSUME NEW k \in Linked(edges) PROVE at(edges[k].source) < at(edges[k].target)
    <3>1. edges[k].target \in Members(order)
      BY <1>2, <1>3, <2>1 DEF TargetsKnown
    <3>2. PICK n \in 1 .. Len(order) : edges[k].target = order[n]
      BY <3>1 DEF Members
    <3>3. PICK m \in 1 .. Len(order) : m < n /\ edges[k].source = order[m]
      BY <2>1, <3>2 DEF Ordered
    <3>4. at(edges[k].source) = m /\ at(edges[k].target) = n
      BY <2>3, <3>2, <3>3
    <3> HIDE DEF at
    <3> QED BY <3>3, <3>4
  <2>5. {order[n] : n \in DOMAIN order} = Ids(nodes)
    BY <2>1, <2>2 DEF Members
  <2> HIDE DEF at
  <2> QED BY <2>4, <2>5
<1> QED BY <1>1, <1>3 DEF sort

LEMMA EdgeErrorsAre ==
  ASSUME NEW nodes, NEW edges
  PROVE  EdgeErrors(nodes, edges) = {} <=>
           \A k \in DOMAIN edges : {edges[k].source, edges[k].target} \subseteq Ids(nodes)
  BY DEF EdgeErrors

LEMMA TriggerErrorsAre ==
  ASSUME NEW nodes, NEW edges, Lists(nodes, edges)
  PROVE  /\ TriggerErrors(nodes) = {} <=> Cardinality(TriggerAt(nodes)) = 1
         /\ Cardinality(TriggerAt(nodes)) > 1 => "many_triggers" \in TriggerErrors(nodes)
<1>1. IsFiniteSet(1 .. Len(nodes)) /\ TriggerAt(nodes) \in SUBSET (1 .. Len(nodes))
  BY ListsAre, UpTo DEF TriggerAt
<1>2. IsFiniteSet(TriggerAt(nodes))
  BY <1>1, FS_Subset
<1>3. /\ Cardinality(TriggerAt(nodes)) \in Nat
      /\ Cardinality(TriggerAt(nodes)) = 0 <=> TriggerAt(nodes) = {}
  BY <1>2, FS_CardinalityType, FS_EmptySet
<1> QED BY <1>3 DEF TriggerErrors

\* What validation says of the edges decides what the sort may answer.
LEMMA SortOfKnownEnds ==
  ASSUME NEW nodes, NEW edges, Lists(nodes, edges), EdgeErrors(nodes, edges) = {}
  PROVE  /\ TopologicalSort(nodes, edges).outcome \in {"ok", "cycle"}
         /\ TopologicalSort(nodes, edges).outcome = "ok" <=>
              AllDone(nodes, edges) = Ids(nodes) /\ Cardinality(Ids(nodes)) = Len(nodes)
<1>1. TargetsKnown(nodes, edges)
  BY EdgeErrorsAre DEF TargetsKnown, Linked
<1>2. UNION SX!ToSet(LevelSteps(nodes, edges)) = AllDone(nodes, edges)
  BY LevelsPartition
<1>3. TopologicalSort(nodes, edges).outcome = TopologicalLevels(nodes, edges).outcome
  BY SortAgrees
<1>4. TopologicalLevels(nodes, edges).outcome =
        IF Cardinality(AllDone(nodes, edges)) # Len(nodes) THEN "cycle" ELSE "ok"
  BY <1>1, <1>2 DEF TopologicalLevels
<1> QED BY <1>3, <1>4, AllDoneCounts

LEMMA ValidityOf ==
  ASSUME NEW nodes, NEW edges, Lists(nodes, edges), Missing \notin Ids(nodes)
  PROVE  LET answer == ValidateWorkflow(nodes, edges) IN
         (answer.errors = {} /\ ~answer.raises) <=>
             /\ WellFormed(nodes, edges)
             /\ Acyclic(nodes, edges)
             /\ Cardinality(TriggerAt(nodes)) = 1
<1> DEFINE answer == ValidateWorkflow(nodes, edges)
           sort == TopologicalSort(nodes, edges).outcome
           known == EdgeErrors(nodes, edges) = {}
           single == Cardinality(TriggerAt(nodes)) = 1
<1>1. /\ answer.raises <=> sort = "key_error"
      /\ answer.errors = {} <=> known /\ single /\ sort # "cycle"
  BY TriggerErrorsAre DEF ValidateWorkflow
<1>2. known => /\ sort \in {"ok", "cycle"}
               /\ sort = "ok" <=>
                    AllDone(nodes, edges) = Ids(nodes) /\ Cardinality(Ids(nodes)) = Len(nodes)
  BY SortOfKnownEnds
<1>3. WellFormed(nodes, edges) <=> Cardinality(Ids(nodes)) = Len(nodes) /\ known
  BY EdgeErrorsAre DEF WellFormed
<1>4. WellFormed(nodes, edges) => (Acyclic(nodes, edges) <=> AllDone(nodes, edges) = Ids(nodes))
  BY AcyclicIs
<1> HIDE DEF answer, sort, known, single
<1>5. (answer.errors = {} /\ ~answer.raises) <=>
        WellFormed(nodes, edges) /\ Acyclic(nodes, edges) /\ single
  BY <1>1, <1>2, <1>3, <1>4
<1> QED BY <1>5 DEF answer, single
=============================================================================
