------------------------- MODULE AncestryWalkProofs -------------------------
(***************************************************************************)
(* Proof that the ancestry walk answers what Precedes defines, for every   *)
(* set of ids and every set of graphs over them.                           *)
(***************************************************************************)
EXTENDS AncestryWalk, LeastNumbers, FiniteSetTheorems

\* S holds the descendant's parents and the ancestors of what it holds.
Bounds(S) == /\ S \subseteq Mentioned(G)
             /\ ParentsIn(G, {descendant}) \subseteq S
             /\ AncestorClosed(G, S)

\* Whatever the walk has met, apart from the descendant it started at, lies in
\* every such set: it meets no id that is not an ancestor.
MetOnlyAncestors == \A S \in SUBSET Mentioned(G) :
                      Bounds(S) => (visited \union frontier) \ {descendant} \subseteq S

\* While it has not found the ancestor, the walk has met the parents of every
\* event it visited and the ancestor was not one of them.
MetAllParents ==
  answer # "yes" =>
    \A c \in visited : /\ ParentsIn(G, {c}) \subseteq visited \union frontier
                       /\ ancestor \notin ParentsIn(G, {c})

\* The inductive invariant.
WalkInv == /\ TypeOK
           /\ MetOnlyAncestors
           /\ MetAllParents
           /\ descendant \in visited \union frontier
           /\ answer = "yes" => Precedes(G, ancestor, descendant)
           /\ answer = "no" => frontier = {}

\* Parents of events of a graph are mentioned in it.
LEMMA ParentsMentioned ==
  ASSUME NEW H, NEW S PROVE ParentsIn(H, S) \subseteq Mentioned(H)
BY DEF ParentsIn, Mentioned

\* The parents of a member of a bounding set, or of the descendant, are in it.
LEMMA BoundsParents ==
  ASSUME NEW S, Bounds(S), NEW c, c = descendant \/ c \in S
  PROVE  ParentsIn(G, {c}) \subseteq S
<1>1. CASE c = descendant
  BY <1>1 DEF Bounds
<1>2. CASE c \in S
  <2>1. ParentsIn(G, {c}) \subseteq ParentsIn(G, S)
    BY <1>2 DEF ParentsIn
  <2> QED
    BY <2>1 DEF Bounds, AncestorClosed
<1> QED
  BY <1>1, <1>2

\* When the stack is empty and the ancestor was not met, the parents of the
\* visited events are a bounding set without it.
LEMMA ExhaustedNotPreceded ==
  ASSUME WalkInv, answer # "yes", frontier = {}
  PROVE  ~Precedes(G, ancestor, descendant)
<1> DEFINE S == ParentsIn(G, visited)
<1>1. S \in SUBSET Mentioned(G)
  BY ParentsMentioned
<1>2. S \subseteq visited /\ ancestor \notin S
  BY DEF WalkInv, MetAllParents, ParentsIn
<1>3. ParentsIn(G, {descendant}) \subseteq S
  BY DEF WalkInv, ParentsIn
<1>4. AncestorClosed(G, S)
  BY <1>2 DEF AncestorClosed, ParentsIn
<1> QED
  BY <1>1, <1>2, <1>3, <1>4 DEF Precedes

\* The arguments never change, so neither does what a bounding set is.
LEMMA InputKept ==
  ASSUME UNCHANGED input PROVE \A S : Bounds(S)' <=> Bounds(S)
BY DEF input, Bounds, AncestorClosed, ParentsIn, Mentioned

\* No turn of the loop breaks the invariant.
LEMMA WalkInvInductive ==
  ASSUME WalkInv, [Next]_vars PROVE WalkInv'
<1> USE DEF WalkInv
<1>1. ASSUME NEW current \in Id, SkipVisited(current) PROVE WalkInv'
  <2>1. visited' \union frontier' = visited \union frontier /\ UNCHANGED input
    BY <1>1 DEF SkipVisited
  <2>2. TypeOK'
    BY <1>1 DEF SkipVisited, TypeOK, input, IsGraph, Mentioned
  <2>3. MetOnlyAncestors'
    BY <2>1, InputKept DEF MetOnlyAncestors, input
  <2>4. MetAllParents'
    BY <1>1, <2>1 DEF SkipVisited, MetAllParents, input
  <2> QED
    BY <1>1, <2>1, <2>2, <2>3, <2>4 DEF SkipVisited, input
<1>2. ASSUME NEW current \in Id, Found(current) PROVE WalkInv'
  <2>1. visited' \union frontier' = visited \union frontier /\ UNCHANGED input
    BY <1>2 DEF Found
  <2>2. TypeOK'
    BY <1>2 DEF Found, TypeOK, input, IsGraph, Mentioned
  <2>3. MetOnlyAncestors'
    BY <2>1, InputKept DEF MetOnlyAncestors, input
  <2>4. ASSUME NEW S \in SUBSET Mentioned(G),
               ParentsIn(G, {descendant}) \subseteq S, AncestorClosed(G, S)
        PROVE  ancestor \in S
    <3>1. Bounds(S)
      BY <2>4 DEF Bounds
    <3>2. current = descendant \/ current \in S
      BY <1>2, <3>1 DEF Found, MetOnlyAncestors
    <3> QED
      BY <1>2, <3>1, <3>2, BoundsParents DEF Found
  <2>5. Precedes(G, ancestor, descendant)'
    BY <2>1, <2>4 DEF Precedes, input
  <2> QED
    BY <1>2, <2>1, <2>2, <2>3, <2>5 DEF Found, MetAllParents, input
<1>3. ASSUME NEW current \in Id, Expand(current) PROVE WalkInv'
  <2>1. /\ visited' \union frontier' = visited \union frontier \union ParentsIn(G, {current})
        /\ UNCHANGED input
    BY <1>3 DEF Expand
  <2>2. TypeOK'
    <3>1. ParentsIn(G, {current}) \subseteq Mentioned(G)
      BY ParentsMentioned
    <3> QED
      BY <1>3, <3>1 DEF Expand, TypeOK, input, IsGraph, Mentioned
  <2>3. MetOnlyAncestors'
    <3>1. ASSUME NEW S \in SUBSET Mentioned(G), Bounds(S)
          PROVE  (visited' \union frontier') \ {descendant} \subseteq S
      <4>1. current = descendant \/ current \in S
        BY <1>3, <3>1 DEF Expand, MetOnlyAncestors
      <4>2. ParentsIn(G, {current}) \subseteq S
        BY <3>1, <4>1, BoundsParents
      <4> QED
        BY <2>1, <3>1, <4>2 DEF MetOnlyAncestors
    <3> QED
      BY <2>1, <3>1, InputKept DEF MetOnlyAncestors, input
  <2>4. MetAllParents'
    BY <1>3, <2>1 DEF Expand, MetAllParents, input
  <2> QED
    BY <1>3, <2>1, <2>2, <2>3, <2>4 DEF Expand, input
<1>4. ASSUME Exhausted PROVE WalkInv'
  <2>1. UNCHANGED <<G, ancestor, descendant, frontier, visited>> /\ answer' = "no"
    BY <1>4 DEF Exhausted, input
  <2>2. TypeOK'
    BY <2>1 DEF TypeOK, IsGraph, Mentioned
  <2>3. MetOnlyAncestors'
    BY <2>1, InputKept DEF MetOnlyAncestors, input
  <2>4. MetAllParents'
    BY <1>4, <2>1 DEF Exhausted, MetAllParents
  <2> QED
    BY <1>4, <2>1, <2>2, <2>3, <2>4 DEF Exhausted
<1>5. ASSUME UNCHANGED vars PROVE WalkInv'
  <2>1. UNCHANGED <<G, ancestor, descendant, frontier, visited, answer>>
    BY <1>5 DEF vars, input
  <2>2. MetOnlyAncestors'
    BY <2>1, InputKept DEF MetOnlyAncestors, input
  <2> QED
    BY <2>1, <2>2 DEF TypeOK, IsGraph, Mentioned, MetAllParents, Precedes
<1> QED
  BY <1>1, <1>2, <1>3, <1>4, <1>5 DEF Next

\* The walk invariant holds in every reachable state.
LEMMA WalkInvariant == Spec => []WalkInv
<1>1. Init => WalkInv
  BY GraphsTyped DEF Init, WalkInv, TypeOK, MetOnlyAncestors, MetAllParents
<1> QED
  BY <1>1, WalkInvInductive, PTL DEF Spec

\* The arguments and the walk's variables keep their shape.
THEOREM TypeCorrect == Spec => []TypeOK
BY WalkInvariant, PTL DEF WalkInv

\* Whenever causally_precedes returns, its answer is that of Precedes: on any
\* graph whatsoever, with dangling parents and with cycles.
THEOREM WalkIsCorrect == Spec => []WalkCorrect
<1>1. WalkInv => WalkCorrect
  BY ExhaustedNotPreceded DEF WalkInv, WalkCorrect
<1> QED
  BY <1>1, WalkInvariant, PTL
-----------------------------------------------------------------------------
(* Precedence is reachability -------------------------------------------- *)

\* p leads from old to young in n links.
Leads(H, p, n, old, young) ==
  p \in [0 .. n -> Id] /\ p[0] = old /\ p[n] = young /\ IsPath(H, p, n)

Connected(H, old, young) == \E n \in Nat \ {0} : \E p : Leads(H, p, n, old, young)

\* A single link is a path.
LEMMA LinkConnects ==
  ASSUME NEW H, NEW young \in Id, NEW old \in Id, old \in ParentsIn(H, {young})
  PROVE  Connected(H, old, young)
<1> DEFINE p == [k \in 0 .. 1 |-> IF k = 0 THEN old ELSE young]
<1>1. p \in [0 .. 1 -> Id] /\ p[0] = old /\ p[1] = young
  OBVIOUS
<1> HIDE DEF p
<1>2. IsPath(H, p, 1)
  BY <1>1 DEF IsPath
<1>3. Leads(H, p, 1, old, young) /\ 1 \in Nat \ {0}
  BY <1>1, <1>2 DEF Leads
<1> QED
  BY <1>3 DEF Connected

\* A path may be prolonged by a link to an older event.
LEMMA LinkPrepended ==
  ASSUME NEW H, NEW young \in Id, NEW middle \in Id, NEW old \in Id,
         Connected(H, middle, young), old \in ParentsIn(H, {middle})
  PROVE  Connected(H, old, young)
<1>1. PICK n \in Nat \ {0} : \E p : Leads(H, p, n, middle, young)
  BY DEF Connected
<1>2. PICK p : Leads(H, p, n, middle, young)
  BY <1>1
<1> DEFINE q == [k \in 0 .. n + 1 |-> IF k = 0 THEN old ELSE p[k - 1]]
<1>3. \A k \in 1 .. n + 1 : k - 1 \in 0 .. n /\ q[k] = p[k - 1]
  OBVIOUS
<1>4. q \in [0 .. n + 1 -> Id] /\ q[0] = old
  BY <1>2 DEF Leads
<1> HIDE DEF q
<1>5. q[n + 1] = young
  BY <1>2, <1>3 DEF Leads
<1>6. ASSUME NEW k \in 0 .. n PROVE q[k] \in ParentsIn(H, {q[k + 1]})
  <2>1. CASE k = 0
    <3>1. q[k] = old /\ q[k + 1] = middle
      BY <1>2, <1>3, <1>4, <2>1 DEF Leads
    <3> QED
      BY <3>1
  <2>2. CASE k # 0
    <3>1. /\ k - 1 \in 0 .. n - 1 /\ (k - 1) + 1 = k
          /\ q[k] = p[k - 1] /\ q[k + 1] = p[k]
      BY <1>3, <2>2
    <3> QED
      BY <1>2, <3>1 DEF Leads, IsPath
  <2> QED
    BY <2>1, <2>2
<1>7. Leads(H, q, n + 1, old, young)
  BY <1>4, <1>5, <1>6 DEF Leads, IsPath
<1> QED
  BY <1>7 DEF Connected

\* A path that comes to an id twice, not counting its start, can be cut short.
LEMMA DetourCut ==
  ASSUME NEW H, NEW n \in Nat \ {0}, NEW p, NEW old, NEW young, Leads(H, p, n, old, young),
         NEW i \in 1 .. n, NEW j \in 1 .. n, i < j, p[i] = p[j]
  PROVE  \E m \in Nat \ {0} : m < n /\ \E q : Leads(H, q, m, old, young)
<1> DEFINE cut == j - i
           m == n - cut
           q == [k \in 0 .. m |-> IF k =< i THEN p[k] ELSE p[k + cut]]
<1>1. cut \in Nat \ {0} /\ m \in Nat \ {0} /\ m < n /\ i =< m
  OBVIOUS
<1>2. p \in [0 .. n -> Id] /\ p[0] = old /\ p[n] = young
      /\ \A k \in 0 .. n - 1 : p[k] \in ParentsIn(H, {p[k + 1]})
  BY DEF Leads, IsPath
<1>3. \A k \in 0 .. m : /\ k =< i => q[k] = p[k]
                        /\ k >= i => k + cut \in 0 .. n /\ q[k] = p[k + cut]
  <2>1. p[i] = p[i + cut]
    OBVIOUS
  <2> QED
    BY <2>1
<1>4. q \in [0 .. m -> Id]
  BY <1>2, <1>3
<1> HIDE DEF q
<1>5. q[0] = old /\ q[m] = young
  BY <1>1, <1>2, <1>3
<1>6. ASSUME NEW k \in 0 .. m - 1 PROVE q[k] \in ParentsIn(H, {q[k + 1]})
  <2>1. CASE k < i
    <3>1. q[k] = p[k] /\ q[k + 1] = p[k + 1] /\ k \in 0 .. n - 1
      BY <1>1, <1>3, <2>1
    <3> QED
      BY <1>2, <3>1
  <2>2. CASE k >= i
    <3>1. /\ q[k] = p[k + cut] /\ q[k + 1] = p[(k + cut) + 1]
          /\ k + cut \in 0 .. n - 1
      BY <1>1, <1>3, <2>2
    <3> QED
      BY <1>2, <3>1
  <2> QED
    BY <1>1, <2>1, <2>2
<1>7. Leads(H, q, m, old, young)
  BY <1>4, <1>5, <1>6 DEF Leads, IsPath
<1> QED
  BY <1>1, <1>7

\* A shortest path comes to no id twice, so it has no more links than there are ids.
LEMMA ShortPath ==
  ASSUME IsFiniteSet(Id), NEW H, NEW old, NEW young, Connected(H, old, young)
  PROVE  Reaches(H, old, young)
<1> DEFINE Lengths == {n \in Nat \ {0} : \E p : Leads(H, p, n, old, young)}
<1>1. Lengths \subseteq Nat /\ Lengths # {}
  BY DEF Connected
<1>2. PICK n \in Lengths : \A m \in Lengths : n =< m
  BY <1>1, LeastNumber
<1>3. PICK p : Leads(H, p, n, old, young)
  BY <1>2
<1> DEFINE f == [k \in 1 .. n |-> p[k]]
<1>4. \A i, j \in 1 .. n : i < j => p[i] # p[j]
  BY <1>2, <1>3, DetourCut
<1>5. \A i, j \in 1 .. n : p[i] = p[j] => i = j
  BY <1>4
<1>6. f \in Injection(1 .. n, Id)
  BY <1>3, <1>5 DEF Injection, IsInjective, Leads
<1>7. Cardinality(1 .. n) =< Cardinality(Id)
  BY <1>6, FS_Injection
<1>8. Cardinality(1 .. n) = n
  BY FS_Interval
<1>9. n \in 1 .. Cardinality(Id)
  BY <1>7, <1>8, FS_CardinalityType
<1> QED
  BY <1>3, <1>9 DEF Reaches, Leads

\* What a path leads from is in every closed set around the parents of its end.
LEMMA PathStaysInClosedSet ==
  ASSUME NEW H, NEW n \in Nat \ {0}, NEW p, NEW old, NEW young, Leads(H, p, n, old, young),
         NEW S, ParentsIn(H, {young}) \subseteq S, AncestorClosed(H, S)
  PROVE  old \in S
<1> DEFINE T == {k \in Nat : k < n => p[n - 1 - k] \in S}
<1>1. 0 \in T
  BY DEF Leads, IsPath
<1>2. ASSUME NEW k \in Nat, k \in T PROVE k + 1 \in T
  <2> SUFFICES ASSUME k + 1 < n PROVE p[n - 1 - (k + 1)] \in S
    OBVIOUS
  <2> DEFINE i == n - 1 - (k + 1)
  <2>1. i \in 0 .. n - 1 /\ i + 1 = n - 1 - k
    OBVIOUS
  <2>2. p[i] \in ParentsIn(H, {p[i + 1]}) /\ p[i + 1] \in S
    BY <1>2, <2>1 DEF Leads, IsPath
  <2> QED
    BY <2>2 DEF AncestorClosed, ParentsIn
<1> HIDE DEF T
<1>3. n - 1 \in T
  BY <1>1, <1>2, InductiveSet
<1> QED
  BY <1>3 DEF Leads, T

\* The closed-set definition of precedence and reachability along at most as many
\* links as there are ids are the same, on any graph over a finite set of ids.
THEOREM PrecedesMeansReaches ==
  ASSUME IsFiniteSet(Id), NEW H, IsGraph(H), NEW old \in Id, NEW young \in Id
  PROVE  Precedes(H, old, young) <=> Reaches(H, old, young)
<1>1. \A S : ParentsIn(H, S) \subseteq Id
  BY DEF ParentsIn, IsGraph
<1>2. ASSUME Precedes(H, old, young) PROVE Reaches(H, old, young)
  <2> DEFINE S == {x \in Mentioned(H) : x \in Id /\ Connected(H, x, young)}
  <2>1. ParentsIn(H, {young}) \subseteq S
    BY <1>1, LinkConnects, ParentsMentioned
  <2>2. AncestorClosed(H, S)
    <3> SUFFICES ASSUME NEW x \in ParentsIn(H, S) PROVE x \in S
      BY DEF AncestorClosed
    <3>1. PICK middle \in S : x \in ParentsIn(H, {middle})
      BY DEF ParentsIn
    <3> QED
      BY <1>1, <3>1, LinkPrepended, ParentsMentioned
  <2>3. old \in S
    BY <1>2, <2>1, <2>2 DEF Precedes
  <2> QED
    BY <2>3, ShortPath
<1>3. ASSUME Reaches(H, old, young) PROVE Precedes(H, old, young)
  <2>1. PICK n \in 1 .. Cardinality(Id) :
          \E p \in [0 .. n -> Id] : p[0] = old /\ p[n] = young /\ IsPath(H, p, n)
    BY <1>3 DEF Reaches
  <2>2. n \in Nat \ {0}
    BY FS_CardinalityType
  <2>3. PICK p : Leads(H, p, n, old, young)
    BY <2>1 DEF Leads
  <2> QED
    BY <2>2, <2>3, PathStaysInClosedSet DEF Precedes
<1> QED
  BY <1>2, <1>3

\* causally_precedes answers "directly or transitively through intermediate
\* events": with WalkIsCorrect, its answer is that there is a path.
THEOREM PrecedesReaches == IsFiniteSet(Id) => (Spec => []PrecedesIsReachability)
<1> SUFFICES ASSUME IsFiniteSet(Id) PROVE Spec => []PrecedesIsReachability
  OBVIOUS
<1>1. WalkInv => PrecedesIsReachability
  BY PrecedesMeansReaches DEF WalkInv, TypeOK, PrecedesIsReachability
<1> QED
  BY <1>1, WalkInvariant, PTL

\* Visiting one id more pays for any stack that it leaves.
LEMMA VisitPays ==
  ASSUME NEW v \in Nat \ {0}, NEW n \in Nat, NEW f \in Nat \ {0}, NEW g \in 0 .. n
  PROVE  (v - 1) * (n + 1) + g \in 0 .. v * (n + 1) + f - 1
<1>1. v * (n + 1) = (v - 1) * (n + 1) + (n + 1)
  OBVIOUS
<1>2. (v - 1) * (n + 1) \in Nat
  OBVIOUS
<1> DEFINE k == (v - 1) * (n + 1)
<1> HIDE DEF k
<1>3. k + g \in 0 .. (k + (n + 1)) + f - 1
  BY <1>2 DEF k
<1> QED
  BY <1>1, <1>3 DEF k

\* causally_precedes makes progress in every turn, on any graph over finitely many
\* ids, with cycles too: its loop ends after at most as many turns as the bound says.
THEOREM WalksAdvance == IsFiniteSet(Id) => (Spec => WalkAdvances)
<1> SUFFICES ASSUME IsFiniteSet(Id) PROVE Spec => WalkAdvances
  OBVIOUS
<1> DEFINE n == Cardinality(Id)
<1>1. TypeOK /\ TypeOK' /\ [Next]_vars
        => [answer' = "walking" => TurnsLeft' \in 0 .. TurnsLeft - 1]_vars
  <2> SUFFICES ASSUME TypeOK, TypeOK', Next, answer' = "walking"
               PROVE  TurnsLeft' \in 0 .. TurnsLeft - 1
    OBVIOUS
  <2>1. /\ frontier \subseteq Id /\ visited \subseteq Id
        /\ frontier' \subseteq Id
    <3>1. Mentioned(G') \subseteq Id /\ Mentioned(G) \subseteq Id
      BY DEF TypeOK, IsGraph, Mentioned
    <3> QED
      BY <3>1 DEF TypeOK
  <2>2. /\ IsFiniteSet(frontier) /\ IsFiniteSet(frontier') /\ IsFiniteSet(Id \ visited)
        /\ n \in Nat /\ Cardinality(Id \ visited) \in Nat
        /\ Cardinality(frontier) \in Nat /\ Cardinality(frontier') \in 0 .. n
    BY <2>1, FS_Subset, FS_CardinalityType
  <2>3. ASSUME NEW current \in Id, SkipVisited(current)
        PROVE  TurnsLeft' \in 0 .. TurnsLeft - 1
    <3>1. /\ current \in frontier /\ frontier' = frontier \ {current}
          /\ visited' = visited
      BY <2>3 DEF SkipVisited
    <3>2. Cardinality(frontier') = Cardinality(frontier) - 1
      BY <2>2, <3>1, FS_RemoveElement
    <3> DEFINE k == Cardinality(Id \ visited) * (n + 1)
    <3>3. k \in Nat
      BY <2>2
    <3>4. TurnsLeft = k + Cardinality(frontier) /\ TurnsLeft' = k + Cardinality(frontier')
      BY <3>1 DEF TurnsLeft
    <3> HIDE DEF k, n
    <3> QED
      BY <2>2, <3>2, <3>3, <3>4
  <2>4. ASSUME NEW current \in Id, Expand(current)
        PROVE  TurnsLeft' \in 0 .. TurnsLeft - 1
    <3>1. /\ current \in frontier /\ current \in Id \ visited
          /\ visited' = visited \union {current}
      BY <2>1, <2>4 DEF Expand
    <3>2. Id \ visited' = (Id \ visited) \ {current}
      BY <3>1
    <3>3. /\ Cardinality(Id \ visited') = Cardinality(Id \ visited) - 1
          /\ Cardinality(Id \ visited) # 0
      BY <2>2, <3>1, <3>2, FS_RemoveElement, FS_EmptySet
    <3>4. Cardinality(frontier) # 0
      BY <2>2, <3>1, FS_EmptySet
    <3> DEFINE v == Cardinality(Id \ visited)
    <3>5. TurnsLeft = v * (n + 1) + Cardinality(frontier)
      BY DEF TurnsLeft
    <3>6. TurnsLeft' = (v - 1) * (n + 1) + Cardinality(frontier')
      BY <3>3 DEF TurnsLeft
    <3> HIDE DEF v, n
    <3>7. v \in Nat \ {0}
      BY <2>2, <3>3 DEF v
    <3> QED
      BY <2>2, <3>4, <3>5, <3>6, <3>7, VisitPays
  <2>5. ~Exhausted /\ \A current \in Id : ~Found(current)
    BY DEF Exhausted, Found
  <2> QED
    BY <2>3, <2>4, <2>5 DEF Next
<1>2. Spec => []TypeOK
  BY TypeCorrect
<1> QED
  BY <1>1, <1>2, PTL DEF Spec, WalkAdvances
=============================================================================
