-------------------------- MODULE SimulationProofs --------------------------
(***************************************************************************)
(* Proofs about Simulation for every set of nodes and tasks, every seed    *)
(* and every number of events, over whatever the harness may do in any     *)
(* order: drops, partitions, drained outboxes, catch-ups, hand-wired and   *)
(* automatic parents. First conflicts and their resolution, then custody:  *)
(* where an event is from its staging on.                                  *)
(***************************************************************************)
EXTENDS Simulation, HistoryProofs

\* Graphs, outboxes, inboxes and queues hold staged events only.
HeldIssued == \A n \in Node : /\ graph[n] \subseteq History
                              /\ outbox[n] \subseteq History
                              /\ inbox[n] \subseteq History
                              /\ message_queues[n] \subseteq History

Inv == TypeOK /\ HistoryInv /\ HeldIssued

-----------------------------------------------------------------------------
(* Staging --------------------------------------------------------------- *)

\* However its parents are wired, a staged event cites issued ids only.
LEMMA StagedCitesIssued ==
  ASSUME HeldIssued, StageEvent
  PROVE  \E n \in Node, kind \in Kinds, t \in Task :
           \E parents \in SUBSET Ids(History) : Stage(n, kind, t, parents)
BY FrontierIssued DEF HeldIssued, StageEvent, StageManual, StageAuto

\* A staged event has a new id, and parents that were issued.
LEMMA StageKeepsInv == ASSUME Inv, StageEvent PROVE Inv'
<1>1. PICK n \in Node, kind \in Kinds, t \in Task, parents \in SUBSET Ids(History) :
         Stage(n, kind, t, parents)
  BY StagedCitesIssued DEF Inv
<1>2. UNCHANGED <<message_queues, partitioned>>
  BY DEF StageEvent
<1>3. NodeTypeOK /\ HistoryInv
  BY DEF Inv, TypeOK
<1>4. TypeOK'
  <2>1. parents \in SUBSET EventId
    BY <1>3, HistoryTyped
  <2> QED
    BY <1>1, <1>2, <1>3, <2>1, StageTyped DEF Inv, TypeOK
<1>5. HistoryInv'
  BY <1>1, <1>3, StageKeepsHistory
<1>6. HeldIssued'
  BY <1>1, <1>2, <1>3, StageHolds DEF Inv, HeldIssued
<1> QED
  BY <1>4, <1>5, <1>6 DEF Inv

-----------------------------------------------------------------------------
(* The other steps ------------------------------------------------------- *)

\* A broadcast moves issued events.
LEMMA SendKeepsInv ==
  ASSUME Inv, NEW s \in Node, NEW to, Send(s, to) PROVE Inv'
<1>1. /\ \A n \in Node : /\ outbox'[n] \subseteq outbox[n]
                         /\ message_queues'[n] \subseteq message_queues[n] \union outbox[s]
      /\ outbox' \in [Node -> SUBSET Event]
      /\ message_queues' \in [Node -> SUBSET Event]
      /\ UNCHANGED <<graph, inbox, next, issued, partitioned>>
  BY DEF Send, EmptyOutbox, Inv, TypeOK, NodeTypeOK
<1>2. TypeOK'
  BY <1>1 DEF Inv, TypeOK, NodeTypeOK
<1>3. HistoryInv'
  BY <1>1, HistoryKept DEF Inv
<1>4. HeldIssued'
  BY <1>1 DEF Inv, HeldIssued, History
<1> QED
  BY <1>2, <1>3, <1>4 DEF Inv

\* A drained outbox goes nowhere.
LEMMA DrainKeepsInv ==
  ASSUME Inv, NEW s \in Node, DrainSilently(s) PROVE Inv'
<1>1. /\ \A n \in Node : outbox'[n] \subseteq outbox[n]
      /\ outbox' \in [Node -> SUBSET Event]
      /\ UNCHANGED <<graph, inbox, next, issued, message_queues, partitioned>>
  BY DEF DrainSilently, EmptyOutbox, Inv, TypeOK, NodeTypeOK
<1>2. TypeOK'
  BY <1>1 DEF Inv, TypeOK, NodeTypeOK
<1>3. HistoryInv'
  BY <1>1, HistoryKept DEF Inv
<1>4. HeldIssued'
  BY <1>1 DEF Inv, HeldIssued, History
<1> QED
  BY <1>2, <1>3, <1>4 DEF Inv

\* What a delivery does to the graphs.
LEMMA DeliverAllUnites ==
  ASSUME Inv, DeliverAll, NEW n \in Node
  PROVE  graph'[n] = graph[n] \union inbox[n] \union message_queues[n]
<1>1. graph'[n] = InsertAll(graph[n], inbox[n] \union message_queues[n])
  BY DEF DeliverAll
<1> QED
  BY <1>1, InsertAllIsUnion DEF Inv, HeldIssued

\* A delivery moves issued events into the graphs.
LEMMA DeliverAllKeepsInv == ASSUME Inv, DeliverAll PROVE Inv'
<1>1. /\ \A n \in Node : /\ graph'[n] = graph[n] \union inbox[n] \union message_queues[n]
                         /\ inbox'[n] = {} /\ message_queues'[n] = {}
      /\ graph' = [n \in Node |-> InsertAll(graph[n], inbox[n] \union message_queues[n])]
      /\ inbox' \in [Node -> SUBSET Event] /\ message_queues' \in [Node -> SUBSET Event]
      /\ UNCHANGED <<outbox, next, issued, partitioned>>
  BY DeliverAllUnites DEF DeliverAll
<1>2. TypeOK'
  <2>1. \A n \in Node : graph'[n] \in SUBSET Event
    BY <1>1 DEF Inv, TypeOK, NodeTypeOK
  <2>2. graph' \in [Node -> SUBSET Event]
    BY <1>1, <2>1
  <2> QED
    BY <1>1, <2>2 DEF Inv, TypeOK, NodeTypeOK
<1>3. HistoryInv'
  BY <1>1, HistoryKept DEF Inv
<1>4. HeldIssued'
  BY <1>1 DEF Inv, HeldIssued, History
<1> QED
  BY <1>2, <1>3, <1>4 DEF Inv

\* Cutting a node off moves no event.
LEMMA PartitionKeepsInv ==
  ASSUME Inv, NEW n \in Node, Partition(n) \/ Heal(n) PROVE Inv'
<1>1. partitioned' \in SUBSET Node /\ UNCHANGED <<nodeVars, message_queues>>
  BY DEF Partition, Heal, Inv, TypeOK
<1>2. TypeOK'
  BY <1>1 DEF Inv, TypeOK, NodeTypeOK, nodeVars
<1>3. HistoryInv'
  BY <1>1, HistoryKept DEF Inv, nodeVars
<1>4. HeldIssued'
  BY <1>1 DEF Inv, HeldIssued, History, nodeVars
<1> QED
  BY <1>2, <1>3, <1>4 DEF Inv

\* A catch-up copies issued events.
LEMMA CatchUpKeepsInv ==
  ASSUME Inv, NEW source \in Node, NEW n \in Node, CatchUp(source, n) PROVE Inv'
<1>1. /\ \A m \in Node : inbox'[m] \subseteq inbox[m] \union graph[source]
      /\ inbox' \in [Node -> SUBSET Event]
      /\ UNCHANGED <<graph, outbox, next, issued, message_queues, partitioned>>
  BY DEF CatchUp, Inv, TypeOK, NodeTypeOK
<1>2. TypeOK'
  BY <1>1 DEF Inv, TypeOK, NodeTypeOK
<1>3. HistoryInv'
  BY <1>1, HistoryKept DEF Inv
<1>4. HeldIssued'
  BY <1>1 DEF Inv, HeldIssued, History
<1> QED
  BY <1>2, <1>3, <1>4 DEF Inv

\* Nor does a step that changes nothing break the invariant.
LEMMA StutterKeepsInv == ASSUME Inv, UNCHANGED vars PROVE Inv'
<1>1. TypeOK'
  BY DEF Inv, TypeOK, NodeTypeOK, vars, nodeVars
<1>2. HistoryInv'
  BY HistoryKept DEF Inv, vars, nodeVars
<1>3. HeldIssued'
  BY DEF Inv, HeldIssued, History, vars, nodeVars
<1> QED
  BY <1>1, <1>2, <1>3 DEF Inv

\* A new simulation has issued nothing.
LEMMA InvInit == ASSUME Init PROVE Inv
<1>1. History = {}
  BY DEF Init, NodeInit, History
<1>2. TypeOK
  BY CounterAssumption DEF Init, NodeInit, TypeOK, NodeTypeOK
<1> QED
  BY <1>1, <1>2 DEF Init, NodeInit, Inv, HistoryInv, IdsDrawn, IdsOnce, PastOlder,
                    PastClosed, PastLeast, HeldIssued

\* No step breaks the invariant.
LEMMA InvInductive == ASSUME Inv, [Next]_vars PROVE Inv'
<1>1. CASE StageEvent
  BY <1>1, StageKeepsInv
<1>2. ASSUME NEW s \in Node, Broadcast(s) PROVE Inv'
  BY <1>2, SendKeepsInv DEF Broadcast
<1>3. ASSUME NEW s \in Node, BroadcastWithFailures(s) PROVE Inv'
  BY <1>3, SendKeepsInv, DrainKeepsInv DEF BroadcastWithFailures, SendWithDrops
<1>4. CASE DeliverAll
  BY <1>4, DeliverAllKeepsInv
<1>5. ASSUME NEW n \in Node, Partition(n) \/ Heal(n) PROVE Inv'
  BY <1>5, PartitionKeepsInv
<1>6. ASSUME NEW source \in Node, NEW n \in Node, CatchUp(source, n) PROVE Inv'
  BY <1>6, CatchUpKeepsInv
<1>7. CASE UNCHANGED vars
  BY <1>7, StutterKeepsInv
<1> QED
  BY <1>1, <1>2, <1>3, <1>4, <1>5, <1>6, <1>7 DEF Next, ReliableNext

\* The invariant holds in every reachable state.
LEMMA Invariant == Spec => []Inv
BY InvInit, InvInductive, PTL DEF Spec

-----------------------------------------------------------------------------
(* The causal order that a graph shows and the one there was ------------- *)

\* What precedes an event in a graph of issued events is in the event's past.
LEMMA PrecedesOnlyInPast ==
  ASSUME Inv, NEW G, G \subseteq History, NEW i \in issued, NEW a,
         Precedes(G, a, i.event.id)
  PROVE  a \in i.past
<1> DEFINE S == i.past \intersect Mentioned(G)
<1>1. ASSUME NEW f \in G, f.id = i.event.id PROVE f.parents \subseteq S
  <2>1. f = i.event
    BY <1>1, OneEventPerId DEF Inv, History
  <2> QED
    BY <2>1 DEF Inv, HistoryInv, PastClosed, Mentioned
<1>2. ASSUME NEW f \in G, f.id \in S PROVE f.parents \subseteq S
  <2>1. PICK j \in issued : f = j.event
    BY DEF History
  <2>2. j.past \subseteq i.past /\ f.parents \subseteq j.past
    BY <1>2, <2>1 DEF Inv, HistoryInv, PastClosed
  <2> QED
    BY <2>2 DEF Mentioned
<1>3. S \in SUBSET Mentioned(G)
  OBVIOUS
<1>4. ParentsIn(G, {i.event.id}) \subseteq S
  BY <1>1 DEF ParentsIn
<1>5. AncestorClosed(G, S)
  BY <1>2 DEF AncestorClosed, ParentsIn
<1> QED
  BY <1>3, <1>4, <1>5 DEF Precedes

\* In a graph that is missing no parent, all of an event's past precedes it.
LEMMA PastPrecedesWhenClosed ==
  ASSUME Inv, NEW G, G \subseteq History, ParentClosed(G),
         NEW i \in issued, i.event \in G, NEW a \in i.past
  PROVE  Precedes(G, a, i.event.id)
<1> SUFFICES ASSUME NEW S \in SUBSET Mentioned(G),
                    ParentsIn(G, {i.event.id}) \subseteq S, AncestorClosed(G, S)
             PROVE  a \in S
  BY DEF Precedes
<1>1. S \subseteq Ids(G)
  BY DEF ParentClosed
<1>2. AncestorClosed(History, S)
  <2>1. ASSUME NEW f \in History, f.id \in S PROVE f.parents \subseteq S
    <3>1. PICK g \in G : g.id = f.id
      BY <1>1, <2>1 DEF Ids
    <3>2. g = f
      BY <3>1, OneEventPerId DEF Inv
    <3> QED
      BY <2>1, <3>2 DEF AncestorClosed, ParentsIn
  <2> QED
    BY <2>1 DEF AncestorClosed, ParentsIn
<1>3. i.event.parents \subseteq S
  BY DEF ParentsIn
<1>4. S \in SUBSET EventId
  BY <1>1, HistoryTyped DEF Inv, TypeOK, Ids
<1> QED
  BY <1>2, <1>3, <1>4 DEF Inv, HistoryInv, PastLeast

\* Any part of the history that holds two concurrent operations shows them as such.
LEMMA GenuineIsFlagged ==
  ASSUME Inv, NEW G, G \subseteq History, NEW S, S \subseteq G, GenuinelyConcurrent(S)
  PROVE  HasConcurrentPair(G, Ids(S))
<1>1. PICK a \in S, b \in S : a # b /\ ~HappenedBefore(a, b) /\ ~HappenedBefore(b, a)
  BY DEF GenuinelyConcurrent
<1>2. PICK i \in issued, j \in issued : a = i.event /\ b = j.event
  BY DEF History
<1>3. a.id # b.id
  BY <1>1, OneEventPerId DEF Inv
<1>4. ~Precedes(G, a.id, b.id)
  BY <1>1, <1>2, PrecedesOnlyInPast DEF HappenedBefore
<1>5. ~Precedes(G, b.id, a.id)
  BY <1>1, <1>2, PrecedesOnlyInPast DEF HappenedBefore
<1>6. a.id \in Ids(S) /\ b.id \in Ids(S)
  BY DEF Ids
<1> QED
  BY <1>3, <1>4, <1>5, <1>6 DEF HasConcurrentPair, Concurrent

\* A part that misses no parent shows none but genuine conflicts.
LEMMA FlaggedIsGenuine ==
  ASSUME Inv, NEW G, G \subseteq History, ParentClosed(G), NEW S, S \subseteq G,
         HasConcurrentPair(G, Ids(S))
  PROVE  GenuinelyConcurrent(S)
<1>1. PICK a \in S, b \in S : a.id # b.id /\ Concurrent(G, a.id, b.id)
  BY DEF HasConcurrentPair, Ids
<1>2. \A i \in issued : i.event = a => b.id \notin i.past
  BY <1>1, PastPrecedesWhenClosed DEF Concurrent
<1>3. \A i \in issued : i.event = b => a.id \notin i.past
  BY <1>1, PastPrecedesWhenClosed DEF Concurrent
<1>4. ~HappenedBefore(b, a) /\ ~HappenedBefore(a, b)
  BY <1>2, <1>3 DEF HappenedBefore
<1> QED
  BY <1>1, <1>4 DEF GenuinelyConcurrent

\* The claims and completions that a graph shows are events of it.
LEMMA OperationsHeld ==
  ASSUME NEW G, NEW t PROVE Claims(G, t) \subseteq G /\ Completions(G, t) \subseteq G
BY DEF Claims, Completions, OfKind, ExtractTaskSubgraph

-----------------------------------------------------------------------------
(* Theorems -------------------------------------------------------------- *)

\* Every variable keeps the shape the code declares.
THEOREM TypeCorrect == Spec => []TypeOK
BY Invariant, PTL DEF Inv

\* Two events with one id are one event, wherever they are: the assumption under
\* which CausalGraph is a CRDT holds in this program.
THEOREM IdsAreUnique == Spec => []EventIdsUnique
<1>1. Inv => EventIdsUnique
  BY OneEventPerId DEF EventIdsUnique, Everywhere, Inv, HeldIssued
<1> QED
  BY <1>1, Invariant, PTL

\* A node that holds two concurrent claims (or completions) flags the conflict:
\* no drop, partition or order of delivery hides one.
THEOREM ConflictsAreFlagged == Spec => []ConflictsFlagged
<1>1. Inv => ConflictsFlagged
  <2> SUFFICES ASSUME Inv, NEW n \in Node, NEW t \in Task, GenuineConflict(n, t)
               PROVE  DeriveTaskState(graph[n], t).has_conflict
    BY DEF ConflictsFlagged
  <2>1. graph[n] \subseteq History
    BY DEF Inv, HeldIssued
  <2>2. HasConflict(graph[n], t)
    BY <2>1, GenuineIsFlagged, OperationsHeld DEF GenuineConflict, HasConflict
  <2> QED
    BY <2>2 DEF DeriveTaskState
<1> QED
  BY <1>1, Invariant, PTL

\* A node that is missing no parent of what it holds flags genuine conflicts only.
THEOREM NoConflictIsImagined == Spec => []NoConflictImagined
<1>1. Inv => NoConflictImagined
  <2> SUFFICES ASSUME Inv, NEW n \in Node, NEW t \in Task, ParentClosed(graph[n]),
                      DeriveTaskState(graph[n], t).has_conflict
               PROVE  GenuineConflict(n, t)
    BY DEF NoConflictImagined
  <2>1. graph[n] \subseteq History
    BY DEF Inv, HeldIssued
  <2>2. HasConflict(graph[n], t)
    BY DEF DeriveTaskState
  <2> QED
    BY <2>1, <2>2, FlaggedIsGenuine, OperationsHeld DEF GenuineConflict, HasConflict
<1> QED
  BY <1>1, Invariant, PTL

-----------------------------------------------------------------------------
(* Who owns a task: among issued events ids grow along the causal order, so *)
(* it has no cycle, and of any set of them some event has nothing after it. *)

\* Min is the least member.
LEMMA LeastNatural ==
  ASSUME NEW T, T \subseteq Nat, T # {}
  PROVE  Min(T) \in T /\ \A x \in T : Min(T) =< x
<1> DEFINE Least(x) == \A y \in T : x =< y
<1>1. \E x \in T : Least(x)
  BY LeastNumber
<1>2. Min(T) = CHOOSE x \in T : Least(x)
  BY DEF Min
<1> HIDE DEF Least
<1>3. Min(T) \in T /\ Least(Min(T))
  BY <1>1, <1>2, Zenon
<1> QED
  BY <1>3 DEF Least

\* Of issued events, one was issued last.
LEMMA LastIssued ==
  ASSUME Inv, NEW S, S \subseteq History, S # {}
  PROVE  \E last \in S : \A e \in S : e.id =< last.id
<1> DEFINE bound == Seed + MaxEvents
           Age(e) == bound - e.id
           T == {Age(e) : e \in S}
<1>1. \A e \in S : e.id \in Int /\ e.id < bound
  BY HistoryTyped, CounterAssumption DEF Inv, TypeOK, Event, EventId
<1>2. bound \in Int
  BY CounterAssumption
<1>3. T \subseteq Nat /\ T # {}
  BY <1>1, <1>2
<1>4. PICK last \in S : \A e \in S : Age(last) =< Age(e)
  <2>1. PICK least \in T : \A x \in T : least =< x
    BY <1>3, LeastNatural
  <2> QED
    BY <2>1
<1> QED
  BY <1>1, <1>2, <1>4

\* What an issued event precedes was issued later.
LEMMA PrecedesGrowsIds ==
  ASSUME Inv, NEW G, G \subseteq History, NEW a \in G, NEW b \in G, Precedes(G, a.id, b.id)
  PROVE  a.id < b.id
<1>1. PICK i \in issued : b = i.event
  BY DEF History
<1> QED
  BY <1>1, PrecedesOnlyInPast DEF Inv, HistoryInv, PastOlder

\* Of some claims, one at least is not superseded: the last one issued.
LEMMA SomeClaimStands ==
  ASSUME Inv, NEW G, G \subseteq History, NEW S, S \subseteq G, S # {}
  PROVE  Maximal(G, S) # {}
<1>1. PICK last \in S : \A e \in S : e.id =< last.id
  BY LastIssued
<1>2. \A e \in S : e.id \in Int
  BY HistoryTyped, IdsAreNumbers DEF Inv, TypeOK, Ids
<1>3. ~Superseded(G, S, last)
  BY <1>1, <1>2, PrecedesGrowsIds DEF Superseded
<1> QED
  BY <1>3 DEF Maximal

\* Claims and completions name the node that staged them.
LEMMA ClaimsNameNodes ==
  ASSUME Inv, NEW G, G \subseteq History, NEW t
  PROVE  \A e \in Claims(G, t) \union Completions(G, t) : e.node \in Node
BY HistoryTyped DEF Inv, TypeOK, Event, Claims, Completions, OfKind, ExtractTaskSubgraph

\* The winner is the author of a standing claim, the least of them.
LEMMA ResolveChooses ==
  ASSUME Inv, NEW G, G \subseteq History, NEW S, S \subseteq G,
         \A e \in S : e.node \in Node
  PROVE  /\ S = {} => Resolve(G, S) = None
         /\ S # {} => /\ \E e \in Maximal(G, S) : e.node = Resolve(G, S)
                      /\ \A e \in Maximal(G, S) : Resolve(G, S) =< e.node
<1> DEFINE owners == {e.node : e \in Maximal(G, S)}
<1>1. Resolve(G, S) = IF owners = {} THEN None ELSE Min(owners)
  BY DEF Resolve
<1>2. S = {} => owners = {}
  BY DEF Maximal
<1>3. ASSUME S # {} PROVE owners # {} /\ owners \subseteq Nat
  BY <1>3, SomeClaimStands, NodesAreNumbers DEF Maximal
<1>4. ASSUME S # {} PROVE Min(owners) \in owners /\ \A x \in owners : Min(owners) =< x
  BY <1>3, <1>4, LeastNatural
<1> HIDE DEF owners
<1>5. S # {} => Resolve(G, S) = Min(owners)
  BY <1>1, <1>3
<1> QED
  BY <1>1, <1>2, <1>4, <1>5 DEF owners

\* Nobody owns a task exactly when nobody has claimed it.
LEMMA NoneOnlyWithoutClaims ==
  ASSUME Inv, NEW G, G \subseteq History, NEW S, S \subseteq G,
         \A e \in S : e.node \in Node
  PROVE  Resolve(G, S) = None <=> S = {}
<1>1. ASSUME S # {} PROVE Resolve(G, S) \in Node
  BY <1>1, ResolveChooses DEF Maximal
<1> QED
  BY <1>1, ResolveChooses, NodesAreNumbers

\* A task that a node has seen claimed has an owner in its eyes, whatever of its
\* history the node has missed.
THEOREM ClaimedTasksHaveOwners == Spec => []ClaimedTaskHasOwner
<1>1. Inv => ClaimedTaskHasOwner
  <2> SUFFICES ASSUME Inv, NEW n \in Node, NEW t \in Task
               PROVE  /\ Resolve(graph[n], Claims(graph[n], t)) = None
                           <=> Claims(graph[n], t) = {}
                      /\ Resolve(graph[n], Completions(graph[n], t)) = None
                           <=> Completions(graph[n], t) = {}
    BY DEF ClaimedTaskHasOwner, DeriveTaskState
  <2>1. graph[n] \subseteq History
    BY DEF Inv, HeldIssued
  <2> QED
    BY <2>1, NoneOnlyWithoutClaims, ClaimsNameNodes, OperationsHeld
<1> QED
  BY <1>1, Invariant, PTL

-----------------------------------------------------------------------------
(* Change of ownership --------------------------------------------------- *)

\* An order that a graph shows is never lost when the graph grows.
LEMMA PrecedesGrows ==
  ASSUME NEW G, NEW H, G \subseteq H, NEW a, NEW b, Precedes(G, a, b)
  PROVE  Precedes(H, a, b)
<1> SUFFICES ASSUME NEW S \in SUBSET Mentioned(H),
                    ParentsIn(H, {b}) \subseteq S, AncestorClosed(H, S)
             PROVE  a \in S
  BY DEF Precedes
<1> DEFINE R == S \intersect Mentioned(G)
<1>1. ParentsIn(G, {b}) \subseteq R
  BY DEF ParentsIn, Mentioned
<1>2. AncestorClosed(G, R)
  BY DEF AncestorClosed, ParentsIn, Mentioned
<1>3. R \in SUBSET Mentioned(G)
  OBVIOUS
<1> QED
  BY <1>1, <1>2, <1>3 DEF Precedes

\* A graph never forgets an event.
LEMMA GraphsGrow ==
  ASSUME Inv, [Next]_vars, NEW n \in Node PROVE graph[n] \subseteq graph'[n]
<1>1. DeliverAll => graph[n] \subseteq graph'[n]
  BY DeliverAllUnites
<1>2. StageEvent => UNCHANGED graph
  BY DEF StageEvent, StageManual, StageAuto, Stage, Push
<1> QED
  BY <1>1, <1>2 DEF Next, ReliableNext, Broadcast, BroadcastWithFailures, SendWithDrops, Send,
                    DrainSilently, Partition, Heal, CatchUp, vars, nodeVars

\* In a node's eyes the owner is the author of a standing claim, the least of them.
LeastOwner(n, t) ==
  LET claims == Claims(graph[n], t)
  IN  /\ claims = {} => Resolve(graph[n], claims) = None
      /\ claims # {} => /\ \E e \in Maximal(graph[n], claims) : e.node = Resolve(graph[n], claims)
                        /\ \A e \in Maximal(graph[n], claims) : Resolve(graph[n], claims) =< e.node

Resolved == Inv /\ \A n \in Node, t \in Task : LeastOwner(n, t)

\* Resolution names a node for every claimed task, in every reachable state.
LEMMA ResolvedInvariant == Spec => []Resolved
<1>1. Inv => Resolved
  <2> SUFFICES ASSUME Inv, NEW n \in Node, NEW t \in Task PROVE LeastOwner(n, t)
    BY DEF Resolved
  <2>1. graph[n] \subseteq History
    BY DEF Inv, HeldIssued
  <2>2. Claims(graph[n], t) \subseteq graph[n]
    BY OperationsHeld
  <2>3. \A e \in Claims(graph[n], t) : e.node \in Node
    BY <2>1, ClaimsNameNodes
  <2> QED
    BY <2>1, <2>2, <2>3, ResolveChooses DEF LeastOwner
<1> QED
  BY <1>1, Invariant, PTL

\* A claim that stands in a graph stood in every smaller graph that held it.
LEMMA StoodBefore ==
  ASSUME NEW G, NEW H, G \subseteq H, NEW t,
         NEW e \in Maximal(H, Claims(H, t)), e \in G
  PROVE  e \in Maximal(G, Claims(G, t))
<1>1. Claims(G, t) \subseteq Claims(H, t) /\ e \in Claims(G, t)
  BY DEF Maximal, Claims, OfKind, ExtractTaskSubgraph
<1>2. ~Superseded(G, Claims(G, t), e)
  BY <1>1, PrecedesGrows DEF Maximal, Superseded
<1> QED
  BY <1>1, <1>2 DEF Maximal

\* Ownership moves only to a claim that has just arrived, or away from claims
\* that are superseded by now.
THEOREM OwnersChangeForCause == Spec => OwnerChangesForCause
<1>1. ASSUME Resolved, Resolved', [Next]_vars, NEW n \in Node, NEW t \in Task,
             Resolve(graph[n], Claims(graph[n], t)) # None,
             Resolve(graph'[n], Claims(graph'[n], t)) # Resolve(graph[n], Claims(graph[n], t)),
             NEW e \in Claims(graph[n], t),
             e.node = Resolve(graph[n], Claims(graph[n], t)),
             ~Superseded(graph'[n], Claims(graph'[n], t), e)
      PROVE  \E f \in Claims(graph'[n], t) \ graph[n] :
               f.node = Resolve(graph'[n], Claims(graph'[n], t))
  <2> DEFINE C == Claims(graph[n], t)
             D == Claims(graph'[n], t)
             old == Resolve(graph[n], C)
             new == Resolve(graph'[n], D)
  <2>1. graph[n] \subseteq graph'[n]
    BY <1>1, GraphsGrow DEF Resolved
  <2>2. e \in D
    BY <2>1 DEF Claims, OfKind, ExtractTaskSubgraph
  <2>3. e \in Maximal(graph'[n], D)
    BY <1>1, <2>2 DEF Maximal
  <2>4. LeastOwner(n, t) /\ LeastOwner(n, t)'
    BY <1>1 DEF Resolved
  <2>5. PICK f \in Maximal(graph'[n], D) : f.node = new /\ new =< e.node
    BY <2>2, <2>3, <2>4 DEF LeastOwner
  <2>6. f \in D
    BY DEF Maximal
  <2>7. CASE f \notin graph[n]
    BY <2>5, <2>6, <2>7
  <2>8. CASE f \in graph[n]
    <3>1. f \in Maximal(graph[n], C)
      BY <2>1, <2>8, StoodBefore
    <3>2. old =< f.node
      BY <3>1, <2>4 DEF LeastOwner
    <3>3. e.node \in Int /\ f.node \in Int
      <4>1. graph[n] \subseteq History
        BY <1>1 DEF Resolved, Inv, HeldIssued
      <4>2. f \in C
        BY <3>1 DEF Maximal
      <4> QED
        BY <1>1, <4>1, <4>2, ClaimsNameNodes, NodesAreNumbers DEF Resolved
    <3>4. new = old
      BY <1>1, <2>5, <3>2, <3>3
    <3> QED
      BY <1>1, <3>4
  <2> QED
    BY <2>7, <2>8
<1>2. Resolved /\ Resolved' /\ [Next]_vars =>
        [\A n \in Node, t \in Task :
           LET old == Resolve(graph[n], Claims(graph[n], t))
               new == Resolve(graph'[n], Claims(graph'[n], t))
           IN  graph'[n] # graph[n] /\ old # None /\ new # old =>
                 \/ \E e \in Claims(graph'[n], t) \ graph[n] : e.node = new
                 \/ \A e \in Claims(graph[n], t) :
                      e.node = old => Superseded(graph'[n], Claims(graph'[n], t), e)]_vars
  BY <1>1, Zenon
<1> QED
  BY <1>2, ResolvedInvariant, PTL DEF Spec, OwnerChangesForCause

-----------------------------------------------------------------------------
(* Conflicts stay -------------------------------------------------------- *)

\* What was issued stays in the history.
LEMMA HistoryOnlyGrows == ASSUME [Next]_vars PROVE issued \subseteq issued'
BY DEF Next, ReliableNext, StageEvent, StageManual, StageAuto, Stage, Push, Broadcast,
       BroadcastWithFailures, SendWithDrops, Send, DrainSilently, DeliverAll, Partition, Heal,
       CatchUp, vars, nodeVars

\* What came before an issued event was settled when it was staged.
LEMMA PastIsSettled ==
  ASSUME Inv, Inv', issued \subseteq issued', NEW a, NEW b \in History, HappenedBefore(a, b)'
  PROVE  HappenedBefore(a, b)
<1>1. PICK i \in issued' : i.event = b /\ a.id \in i.past
  BY DEF HappenedBefore
<1>2. PICK j \in issued : j.event = b
  BY DEF History
<1>3. i = j
  BY <1>1, <1>2 DEF Inv, HistoryInv, IdsOnce
<1> QED
  BY <1>1, <1>2, <1>3 DEF HappenedBefore

\* Two concurrent operations are concurrent ever after.
LEMMA ConcurrentStays ==
  ASSUME Inv, Inv', issued \subseteq issued', NEW S, NEW T, S \subseteq T, S \subseteq History,
         GenuinelyConcurrent(S)
  PROVE  \E a, b \in T : a # b /\ ~HappenedBefore(a, b)' /\ ~HappenedBefore(b, a)'
<1>1. PICK a \in S, b \in S : a # b /\ ~HappenedBefore(a, b) /\ ~HappenedBefore(b, a)
  BY DEF GenuinelyConcurrent
<1>2. ~HappenedBefore(a, b)' /\ ~HappenedBefore(b, a)'
  BY <1>1, PastIsSettled
<1> QED
  BY <1>1, <1>2

\* A conflict that a node holds is there to stay: no later event hides it.
THEOREM ConflictsAreForGood == Spec => ConflictsStay
<1>1. ASSUME Inv, Inv', ConflictsFlagged', [Next]_vars,
             NEW n \in Node, NEW t \in Task, GenuineConflict(n, t)
      PROVE  DeriveTaskState(graph'[n], t).has_conflict
  <2>1. issued \subseteq issued' /\ graph[n] \subseteq graph'[n] /\ graph[n] \subseteq History
    BY <1>1, HistoryOnlyGrows, GraphsGrow DEF Inv, HeldIssued
  <2>2. /\ Claims(graph[n], t) \subseteq Claims(graph'[n], t)
        /\ Completions(graph[n], t) \subseteq Completions(graph'[n], t)
        /\ Claims(graph[n], t) \subseteq History /\ Completions(graph[n], t) \subseteq History
    BY <2>1 DEF Claims, Completions, OfKind, ExtractTaskSubgraph
  <2>3. GenuinelyConcurrent(Claims(graph[n], t)) => GenuinelyConcurrent(Claims(graph[n], t))'
    BY <1>1, <2>1, <2>2, ConcurrentStays DEF GenuinelyConcurrent
  <2>4. GenuinelyConcurrent(Completions(graph[n], t))
          => GenuinelyConcurrent(Completions(graph[n], t))'
    BY <1>1, <2>1, <2>2, ConcurrentStays DEF GenuinelyConcurrent
  <2> QED
    BY <1>1, <2>3, <2>4 DEF GenuineConflict, ConflictsFlagged
<1>2. Inv /\ Inv' /\ ConflictsFlagged' /\ [Next]_vars =>
        [\A n \in Node, t \in Task :
           GenuineConflict(n, t) => DeriveTaskState(graph'[n], t).has_conflict]_vars
  BY <1>1
<1> QED
  BY <1>2, Invariant, ConflictsAreFlagged, PTL DEF Spec, ConflictsStay

-----------------------------------------------------------------------------
(* The frontier ---------------------------------------------------------- *)

\* All that a node knows of a task precedes an event that cites its frontier of it.
LEMMA FrontierCovers ==
  ASSUME Inv, NEW n \in Node, NEW t, NEW e, e.parents = FrontierFor(n, t),
         NEW k \in ExtractTaskSubgraph(Known(n), t)
  PROVE  Precedes(Known(n) \union {e}, k.id, e.id)
<1> DEFINE sub == ExtractTaskSubgraph(Known(n), t)
           G == Known(n) \union {e}
<1>1. sub \subseteq History /\ sub \subseteq Known(n)
  BY DEF Inv, HeldIssued, Known, InsertAll, ExtractTaskSubgraph
<1> SUFFICES ASSUME NEW S \in SUBSET Mentioned(G),
                    ParentsIn(G, {e.id}) \subseteq S, AncestorClosed(G, S)
             PROVE  k.id \in S
  BY DEF Precedes
<1> DEFINE missed == {x \in sub : x.id \notin S}
<1>2. ASSUME missed # {} PROVE FALSE
  <2>1. PICK last \in missed : \A x \in missed : x.id =< last.id
    BY <1>1, <1>2, LastIssued
  <2>2. e.parents \subseteq S
    BY DEF ParentsIn
  <2>3. PICK child \in sub : last.id \in child.parents
    BY <2>1, <2>2 DEF FrontierFor
  <2>4. last.id < child.id
    <3>1. PICK i \in issued : child = i.event
      BY <1>1 DEF History
    <3> QED
      BY <2>3, <3>1 DEF Inv, HistoryInv, PastClosed, PastOlder
  <2>5. last.id \in Int /\ child.id \in Int
    BY <1>1, HistoryTyped, IdsAreNumbers DEF Inv, TypeOK, Ids
  <2>6. child.id \in S
    BY <2>1, <2>3, <2>4, <2>5
  <2>7. child.parents \subseteq S
    BY <1>1, <2>6 DEF AncestorClosed, ParentsIn
  <2> QED
    BY <2>1, <2>3, <2>7
<1> QED
  BY <1>2

\* An event staged with automatic wiring depends on everything its node knows of
\* the task, even if the events between never reached the node, and however the
\* events it knows were wired.
THEOREM AutoDependsOnAll == Spec => []AutoDependsOnAllKnown
<1>1. Inv => AutoDependsOnAllKnown
  BY FrontierCovers DEF AutoDependsOnAllKnown, NewEvent
<1> QED
  BY <1>1, Invariant, PTL

-----------------------------------------------------------------------------
(* Custody: where an event is from its staging on. Its author keeps it, and *)
(* no step but the broadcast of a partitioned author loses it; without      *)
(* failures all nodes are in step, and everybody gets everything.           *)

\* An outbox holds its own node's events only.
OutboxOwn == \A i \in issued, n \in Node : i.event \in outbox[n] => i.by = n

\* An event that has reached anybody is in its author's graph or on its way there.
AuthorFirst ==
  \A i \in issued, n \in Node :
    i.event \in graph[n] \union inbox[n] \union message_queues[n]
      => i.event \in graph[i.by] \union message_queues[i.by]

Custody == Inv /\ OutboxOwn /\ AuthorFirst

\* Every event was staged by a node.
LEMMA AuthorsAreNodes == ASSUME Inv, NEW i \in issued PROVE i.by \in Node
BY DEF Inv, TypeOK, NodeTypeOK

\* A new event is in its author's outbox and nowhere else.
LEMMA StageKeepsCustody == ASSUME Custody, StageEvent PROVE Custody'
<1>1. PICK n \in Node, kind \in Kinds, t \in Task, parents \in SUBSET Ids(History) :
         Stage(n, kind, t, parents)
  BY StagedCitesIssued DEF Custody, Inv
<1> DEFINE e == NewEvent(n, kind, t, parents)
           x == [event |-> e, by |-> n, past |-> Past(parents)]
<1>2. /\ issued' = issued \union {x} /\ x.event = e /\ x.by = n /\ e.id = next
      /\ outbox' = [outbox EXCEPT ![n] = @ \union {e}]
      /\ UNCHANGED <<graph, inbox, message_queues>>
  BY <1>1 DEF Stage, Push, NewEvent, StageEvent
<1> HIDE DEF x, e
<1>3. e \notin History
  <2>1. \A i \in issued : i.event.id \in Int /\ i.event.id < next
    BY IdsAreNumbers, HistoryTyped DEF Custody, Inv, TypeOK, HistoryInv, IdsDrawn, History, Ids
  <2> QED
    BY <1>2, <2>1 DEF History
<1>4. \A m \in Node : outbox'[m] \subseteq History \union {e}
                      /\ (e \in outbox'[m] => m = n)
                      /\ (\A f \in outbox'[m] : f # e => f \in outbox[m])
  BY <1>2, <1>3 DEF Custody, Inv, HeldIssued, TypeOK, NodeTypeOK
<1>5. OutboxOwn'
  BY <1>2, <1>3, <1>4 DEF Custody, OutboxOwn, History
<1>6. AuthorFirst'
  BY <1>2, <1>3 DEF Custody, Inv, HeldIssued, AuthorFirst, History
<1> QED
  BY <1>5, <1>6, StageKeepsInv DEF Custody

\* A message that is copied to its sender too leaves its events in custody.
LEMMA SendKeepsCustody ==
  ASSUME Custody, NEW s \in Node, NEW to, s \in to, Send(s, to) PROVE Custody'
<1>1. /\ \A n \in Node : /\ outbox'[n] = IF n = s THEN {} ELSE outbox[n]
                         /\ message_queues'[n] \subseteq message_queues[n] \union outbox[s]
                         /\ message_queues[n] \subseteq message_queues'[n]
      /\ outbox[s] \subseteq message_queues'[s]
      /\ UNCHANGED <<graph, inbox, issued>>
  BY DEF Send, EmptyOutbox, Custody, Inv, TypeOK, NodeTypeOK
<1>2. OutboxOwn'
  BY <1>1 DEF Custody, OutboxOwn
<1>3. AuthorFirst'
  <2> SUFFICES ASSUME NEW i \in issued, NEW n \in Node,
                      i.event \in graph[n] \union inbox[n] \union message_queues'[n]
               PROVE  i.event \in graph[i.by] \union message_queues'[i.by]
    BY <1>1 DEF AuthorFirst
  <2>1. i.by \in Node
    BY AuthorsAreNodes DEF Custody
  <2>2. CASE i.event \in outbox[s]
    BY <1>1, <2>2 DEF Custody, OutboxOwn
  <2>3. CASE i.event \notin outbox[s]
    BY <1>1, <2>1, <2>3 DEF Custody, AuthorFirst
  <2> QED
    BY <2>2, <2>3
<1> QED
  BY <1>2, <1>3, SendKeepsInv DEF Custody

\* A partitioned author's broadcast empties an outbox and does nothing else.
LEMMA DrainKeepsCustody ==
  ASSUME Custody, NEW s \in Node, DrainSilently(s) PROVE Custody'
<1>1. /\ \A n \in Node : outbox'[n] \subseteq outbox[n]
      /\ UNCHANGED <<graph, inbox, issued, message_queues>>
  BY DEF DrainSilently, EmptyOutbox, Custody, Inv, TypeOK, NodeTypeOK
<1> QED
  BY <1>1, DrainKeepsInv DEF Custody, OutboxOwn, AuthorFirst

\* A delivery moves what is on its way to an author into its graph.
LEMMA DeliverAllKeepsCustody == ASSUME Custody, DeliverAll PROVE Custody'
<1>1. /\ \A n \in Node : /\ graph'[n] = graph[n] \union inbox[n] \union message_queues[n]
                         /\ inbox'[n] = {} /\ message_queues'[n] = {}
      /\ UNCHANGED <<outbox, issued>>
  BY DeliverAllUnites DEF DeliverAll, Custody
<1>2. AuthorFirst'
  BY <1>1, AuthorsAreNodes DEF Custody, AuthorFirst
<1> QED
  BY <1>1, <1>2, DeliverAllKeepsInv DEF Custody, OutboxOwn

\* A catch-up copies what has reached a graph, so the authors have it.
LEMMA CatchUpKeepsCustody ==
  ASSUME Custody, NEW source \in Node, NEW n \in Node, CatchUp(source, n) PROVE Custody'
<1>1. /\ \A m \in Node : inbox'[m] \subseteq inbox[m] \union graph[source]
      /\ UNCHANGED <<graph, outbox, issued, message_queues>>
  BY DEF CatchUp, Custody, Inv, TypeOK, NodeTypeOK
<1> QED
  BY <1>1, CatchUpKeepsInv DEF Custody, OutboxOwn, AuthorFirst

\* No step breaks the custody invariant.
LEMMA CustodyInductive == ASSUME Custody, [Next]_vars PROVE Custody'
<1>1. CASE StageEvent
  BY <1>1, StageKeepsCustody
<1>2. ASSUME NEW s \in Node, Broadcast(s) PROVE Custody'
  BY <1>2, SendKeepsCustody DEF Broadcast
<1>3. ASSUME NEW s \in Node, BroadcastWithFailures(s) PROVE Custody'
  BY <1>3, SendKeepsCustody, DrainKeepsCustody DEF BroadcastWithFailures, SendWithDrops
<1>4. CASE DeliverAll
  BY <1>4, DeliverAllKeepsCustody
<1>5. ASSUME NEW n \in Node, Partition(n) \/ Heal(n) PROVE Custody'
  BY <1>5, PartitionKeepsInv
     DEF Partition, Heal, Custody, OutboxOwn, AuthorFirst, nodeVars
<1>6. ASSUME NEW source \in Node, NEW n \in Node, CatchUp(source, n) PROVE Custody'
  BY <1>6, CatchUpKeepsCustody
<1>7. CASE UNCHANGED vars
  BY <1>7, StutterKeepsInv DEF vars, nodeVars, Custody, OutboxOwn, AuthorFirst
<1> QED
  BY <1>1, <1>2, <1>3, <1>4, <1>5, <1>6, <1>7 DEF Next, ReliableNext

\* The custody invariant holds in every reachable state.
LEMMA CustodyInvariant == Spec => []Custody
<1>1. Init => Custody
  BY InvInit DEF Init, NodeInit, Custody, OutboxOwn, AuthorFirst
<1> QED
  BY <1>1, CustodyInductive, PTL DEF Spec

\* A node is never behind another on its own actions: what anybody has in its
\* graph, its author has too, or will after the next delivery.
THEOREM AuthorsKeepTheirOwn == Spec => []AuthorKeepsOwn
<1>1. Custody => AuthorKeepsOwn
  BY DEF Custody, AuthorFirst, AuthorKeepsOwn
<1> QED
  BY <1>1, CustodyInvariant, PTL

-----------------------------------------------------------------------------
(* Losses ---------------------------------------------------------------- *)

HeldBy(n) == graph[n] \union outbox[n] \union inbox[n] \union message_queues[n]

\* A step that takes no event from a node, except to its own queue, loses none.
LEMMA StillHeld ==
  ASSUME \A n \in Node : HeldBy(n) \subseteq HeldBy(n)'
  PROVE  Everywhere \subseteq Everywhere'
BY DEF Everywhere, HeldBy

\* A broadcast that reaches the sender's own queue destroys no event.
LEMMA SendLosesNothing ==
  ASSUME Inv, NEW s \in Node, NEW to, s \in to, Send(s, to)
  PROVE  Everywhere \subseteq Everywhere'
<1>1. \A n \in Node : /\ outbox'[n] = IF n = s THEN {} ELSE outbox[n]
                      /\ message_queues[n] \subseteq message_queues'[n]
                      /\ outbox[s] \subseteq message_queues'[s]
  BY DEF Send, EmptyOutbox, Inv, TypeOK, NodeTypeOK
<1>2. UNCHANGED <<graph, inbox>>
  BY DEF Send
<1> QED
  BY <1>1, <1>2, StillHeld DEF HeldBy

\* No action is silently dropped but by a partitioned node's own broadcast.
THEOREM OnlyCutOffAuthorsLose == Spec => LostOnlyByCutOffAuthor
<1>1. ASSUME Custody, [Next]_vars, NEW i \in issued,
             i.event \in Everywhere, i.event \notin Everywhere'
      PROVE  i.by \in partitioned
  <2>1. CASE StageEvent
    <3>1. \A n \in Node : HeldBy(n) \subseteq HeldBy(n)'
      BY <1>1, <2>1, StagedCitesIssued
         DEF StageEvent, Stage, Push, HeldBy, Custody, Inv, TypeOK, NodeTypeOK
    <3> QED
      BY <1>1, <3>1, StillHeld
  <2>2. ASSUME NEW s \in Node, Broadcast(s) PROVE i.by \in partitioned
    BY <1>1, <2>2, SendLosesNothing DEF Broadcast, Custody
  <2>3. ASSUME NEW s \in Node, BroadcastWithFailures(s) PROVE i.by \in partitioned
    <3>1. CASE \E drops \in SUBSET Node : SendWithDrops(s, drops)
      BY <1>1, <3>1, SendLosesNothing DEF SendWithDrops, Custody
    <3>2. CASE DrainSilently(s)
      <4>1. \A n \in Node : n # s => HeldBy(n) \subseteq HeldBy(n)'
        BY <3>2 DEF DrainSilently, EmptyOutbox, HeldBy, Custody, Inv, TypeOK, NodeTypeOK
      <4>2. HeldBy(s) \ outbox[s] \subseteq HeldBy(s)'
        BY <3>2 DEF DrainSilently, HeldBy
      <4>3. i.event \in outbox[s]
        BY <1>1, <4>1, <4>2 DEF Everywhere, HeldBy
      <4> QED
        BY <1>1, <3>2, <4>3 DEF Custody, OutboxOwn, DrainSilently
    <3> QED
      BY <2>3, <3>1, <3>2 DEF BroadcastWithFailures
  <2>4. CASE DeliverAll
    <3>1. \A n \in Node : HeldBy(n) \subseteq HeldBy(n)'
      BY <1>1, <2>4, DeliverAllUnites DEF DeliverAll, HeldBy, Custody
    <3> QED
      BY <1>1, <3>1, StillHeld
  <2>5. ASSUME NEW n \in Node, Partition(n) \/ Heal(n) PROVE i.by \in partitioned
    BY <1>1, <2>5 DEF Partition, Heal, nodeVars, Everywhere
  <2>6. ASSUME NEW source \in Node, NEW n \in Node, CatchUp(source, n)
        PROVE  i.by \in partitioned
    <3>1. \A m \in Node : HeldBy(m) \subseteq HeldBy(m)'
      BY <1>1, <2>6 DEF CatchUp, HeldBy, Custody, Inv, TypeOK, NodeTypeOK
    <3> QED
      BY <1>1, <3>1, StillHeld
  <2>7. CASE UNCHANGED vars
    BY <1>1, <2>7 DEF vars, nodeVars, Everywhere
  <2> QED
    BY <1>1, <2>1, <2>2, <2>3, <2>4, <2>5, <2>6, <2>7 DEF Next, ReliableNext
<1>2. Custody /\ [Next]_vars =>
        [\A i \in issued : i.event \in Everywhere /\ i.event \notin Everywhere'
                             => i.by \in partitioned]_vars
  BY <1>1
<1> QED
  BY <1>2, CustodyInvariant, PTL DEF Spec, LostOnlyByCutOffAuthor

-----------------------------------------------------------------------------
(* Without failures: the nodes stay in lock-step -------------------------- *)

\* Only a catch-up fills an inbox between deliveries, and nobody needs one here.
InStep == Inv /\ LockStep /\ inbox = [n \in Node |-> {}]

\* No step without failures puts one node ahead of another.
LEMMA InStepInductive == ASSUME InStep, [ReliableNext]_vars PROVE InStep'
<1>1. Inv'
  BY InvInductive DEF InStep, Next, vars
<1>2. CASE StageEvent
  BY <1>1, <1>2, StagedCitesIssued DEF InStep, Inv, LockStep, StageEvent, Stage, Push
<1>3. ASSUME NEW s \in Node, Broadcast(s) PROVE InStep'
  <2>1. /\ \A n \in Node : message_queues'[n] = message_queues[n] \union outbox[s]
        /\ UNCHANGED <<graph, inbox>>
    BY <1>3 DEF Broadcast, Send
  <2> QED
    BY <1>1, <2>1 DEF InStep, LockStep
<1>4. CASE DeliverAll
  <2>1. /\ \A n \in Node : /\ graph'[n] = graph[n] \union message_queues[n]
                           /\ message_queues'[n] = {}
        /\ inbox' = [n \in Node |-> {}]
    BY <1>4, DeliverAllUnites DEF DeliverAll, InStep
  <2> QED
    BY <1>1, <2>1 DEF InStep, LockStep
<1>5. CASE UNCHANGED vars
  BY <1>1, <1>5 DEF InStep, LockStep, vars, nodeVars
<1> QED
  BY <1>2, <1>3, <1>4, <1>5 DEF ReliableNext

\* Without failures all nodes are in step throughout.
LEMMA InStepInvariant == ReliableSpec => []InStep
<1>1. Init => InStep
  BY InvInit DEF Init, NodeInit, InStep, LockStep
<1> QED
  BY <1>1, InStepInductive, PTL DEF ReliableSpec

\* Without failures no node ever sees more or less than another.
THEOREM NodesStayInLockStep == ReliableSpec => []LockStep
<1>1. InStep => LockStep
  BY DEF InStep
<1> QED
  BY <1>1, InStepInvariant, PTL

\* What has been staged is in every graph, on its way to it, or in an outbox.
NothingLost ==
  \A n \in Node : \A e \in History :
    e \in graph[n] \union message_queues[n] \/ \E m \in Node : e \in outbox[m]

\* No step without failures loses an event on its way to a node.
LEMMA NothingLostInductive ==
  ASSUME InStep, NothingLost, [ReliableNext]_vars PROVE NothingLost'
<1> USE DEF NothingLost
<1>1. CASE StageEvent
  <2>1. PICK n \in Node, kind \in Kinds, t \in Task, parents \in SUBSET Ids(History) :
           Stage(n, kind, t, parents)
    BY <1>1, StagedCitesIssued DEF InStep, Inv
  <2> DEFINE e == NewEvent(n, kind, t, parents)
  <2>2. /\ outbox' = [outbox EXCEPT ![n] = @ \union {e}]
        /\ issued' = issued \union {[event |-> e, by |-> n, past |-> Past(e.parents)]}
        /\ UNCHANGED <<graph, message_queues>>
    BY <1>1, <2>1 DEF StageEvent, Stage, Push
  <2> HIDE DEF e
  <2>3. History' = History \union {e}
    BY <2>2, HistoryGrows
  <2>4. e \in outbox'[n] /\ \A m \in Node : outbox[m] \subseteq outbox'[m]
    BY <2>2 DEF InStep, Inv, TypeOK, NodeTypeOK
  <2> QED
    BY <2>2, <2>3, <2>4
<1>2. ASSUME NEW s \in Node, Broadcast(s) PROVE NothingLost'
  <2>1. /\ \A n \in Node : /\ message_queues'[n] = message_queues[n] \union outbox[s]
                           /\ n # s => outbox'[n] = outbox[n]
        /\ UNCHANGED <<graph, issued>>
    BY <1>2 DEF Broadcast, Send, EmptyOutbox, InStep, Inv, TypeOK, NodeTypeOK
  <2> QED
    BY <2>1 DEF History
<1>3. CASE DeliverAll
  <2>1. /\ \A n \in Node : graph[n] \union message_queues[n] \subseteq graph'[n]
        /\ UNCHANGED <<outbox, issued>>
    BY <1>3, DeliverAllUnites DEF DeliverAll, InStep
  <2> QED
    BY <2>1 DEF History
<1>4. CASE UNCHANGED vars
  BY <1>4 DEF vars, nodeVars, History
<1> QED
  BY <1>1, <1>2, <1>3, <1>4 DEF ReliableNext

\* Once nothing is staged or in flight, every node knows every event: eventual
\* consistency, reduced to the queues coming to rest.
THEOREM QuietMeansComplete == ReliableSpec => []SettledIsComplete
<1>1. Init => NothingLost
  BY DEF Init, NodeInit, NothingLost, History
<1>2. InStep /\ NothingLost /\ [ReliableNext]_vars => NothingLost'
  BY NothingLostInductive
<1>3. InStep /\ NothingLost => SettledIsComplete
  <2> SUFFICES ASSUME InStep, NothingLost, NEW n \in Node,
                      \A m \in Node : outbox[m] = {} /\ message_queues[m] = {}
               PROVE  graph[n] = History
    BY DEF SettledIsComplete
  <2>1. graph[n] \subseteq History
    BY DEF InStep, Inv, HeldIssued
  <2>2. History \subseteq graph[n]
    BY DEF NothingLost
  <2> QED
    BY <2>1, <2>2
<1> QED
  BY <1>1, <1>2, <1>3, InStepInvariant, PTL DEF ReliableSpec

-----------------------------------------------------------------------------
(* Automatic wiring ------------------------------------------------------ *)

\* A graph, what is on its way to it, and what is staged there on top of both:
\* each cites parents that it, or what goes before it, holds.
Covered == \A n \in Node :
             /\ ParentClosed(graph[n])
             /\ ParentClosed(graph[n] \union message_queues[n])
             /\ ParentClosed(graph[n] \union message_queues[n] \union outbox[n])

NothingMissing == InStep /\ Covered

\* A new event whose parents are there leaves no parent missing.
LEMMA ClosedGrows ==
  ASSUME NEW G, NEW H, H \subseteq G, ParentClosed(G), NEW e, e.parents \subseteq Ids(H)
  PROVE  ParentClosed(G \union {e})
BY DEF ParentClosed, Mentioned, Ids

\* The frontier cites only what the node's graph and outbox hold.
LEMMA FrontierKnown ==
  ASSUME NEW n \in Node, NEW t
  PROVE  FrontierFor(n, t) \subseteq Ids(graph[n] \union outbox[n])
BY DEF FrontierFor, ExtractTaskSubgraph, Known, InsertAll, Ids

\* Without failures and hand-wired parents no step leaves a parent behind.
LEMMA CoveredInductive ==
  ASSUME Wiring \subseteq {"auto"}, NothingMissing, [ReliableNext]_vars
  PROVE  NothingMissing'
<1>1. InStep'
  BY InStepInductive DEF NothingMissing
<1>2. CASE StageEvent
  <2>1. PICK n \in Node, kind \in Kinds, t \in Task : Stage(n, kind, t, FrontierFor(n, t))
    BY <1>2 DEF StageEvent, StageManual, StageAuto
  <2> DEFINE e == NewEvent(n, kind, t, FrontierFor(n, t))
  <2>2. /\ \A m \in Node : outbox'[m] = IF m = n THEN outbox[m] \union {e} ELSE outbox[m]
        /\ e.parents \subseteq Ids(graph[n] \union outbox[n])
        /\ UNCHANGED <<graph, message_queues>>
    BY <1>2, <2>1, FrontierKnown
       DEF StageEvent, Stage, Push, NewEvent, NothingMissing, InStep, Inv, TypeOK, NodeTypeOK
  <2> HIDE DEF e
  <2> DEFINE G(m) == graph[m] \union message_queues[m] \union outbox[m]
  <2>3. ParentClosed(G(n) \union {e})
    BY <2>2, ClosedGrows DEF NothingMissing, Covered
  <2>4. \A m \in Node : G(m)' = IF m = n THEN G(m) \union {e} ELSE G(m)
    BY <2>2
  <2>5. \A m \in Node : ParentClosed(G(m))
    BY DEF NothingMissing, Covered
  <2>6. \A m \in Node : ParentClosed(G(m)')
    BY <2>3, <2>4, <2>5
  <2>7. \A m \in Node : graph'[m] = graph[m] /\ message_queues'[m] = message_queues[m]
    BY <2>2
  <2> QED
    BY <1>1, <2>6, <2>7 DEF NothingMissing, Covered, ParentClosed
<1>3. ASSUME NEW s \in Node, Broadcast(s) PROVE NothingMissing'
  <2>1. \A n \in Node : /\ message_queues'[n] = message_queues[s] \union outbox[s]
                        /\ graph'[n] = graph[s]
                        /\ outbox'[n] = IF n = s THEN {} ELSE outbox[n]
                        /\ graph[n] = graph[s] /\ message_queues[n] = message_queues[s]
    BY <1>3 DEF Broadcast, Send, EmptyOutbox, NothingMissing, InStep, LockStep, Inv, TypeOK,
                NodeTypeOK
  <2>2. ASSUME NEW n \in Node PROVE ParentClosed(graph'[n] \union message_queues'[n])
    BY <2>1, <2>2 DEF NothingMissing, Covered, ParentClosed, Mentioned, Ids
  <2>3. ASSUME NEW n \in Node
        PROVE  ParentClosed(graph'[n] \union message_queues'[n] \union outbox'[n])
    BY <2>1, <2>2, <2>3 DEF NothingMissing, Covered, ParentClosed, Mentioned, Ids
  <2>4. \A n \in Node : ParentClosed(graph'[n])
    BY <2>1 DEF NothingMissing, Covered
  <2> QED
    BY <1>1, <2>2, <2>3, <2>4 DEF NothingMissing, Covered, ParentClosed
<1>4. CASE DeliverAll
  <2>1. \A n \in Node : /\ graph'[n] = graph[n] \union message_queues[n]
                        /\ message_queues'[n] = {} /\ outbox'[n] = outbox[n]
    BY <1>4, DeliverAllUnites DEF DeliverAll, NothingMissing, InStep
  <2> QED
    BY <1>1, <2>1 DEF NothingMissing, Covered
<1>5. CASE UNCHANGED vars
  BY <1>1, <1>5 DEF NothingMissing, Covered, vars, nodeVars
<1> QED
  BY <1>2, <1>3, <1>4, <1>5 DEF ReliableNext

\* Without failures and hand-wired parents no event is delivered before its
\* parents: there is nothing for the ancestry walk to stumble over.
THEOREM AutoNeverMisses ==
  Wiring \subseteq {"auto"} => (ReliableSpec => []AutoNeverMissesParent)
<1> SUFFICES ASSUME Wiring \subseteq {"auto"} PROVE ReliableSpec => []AutoNeverMissesParent
  OBVIOUS
<1>1. Init => Covered
  BY DEF Init, NodeInit, Covered, ParentClosed, Mentioned
<1>2. NothingMissing /\ [ReliableNext]_vars => NothingMissing'
  BY CoveredInductive
<1>3. Init => NothingMissing
  BY <1>1, InvInit DEF Init, NodeInit, NothingMissing, InStep, LockStep
<1>4. NothingMissing => AutoNeverMissesParent
  BY DEF NothingMissing, Covered, AutoNeverMissesParent
<1> QED
  BY <1>2, <1>3, <1>4, PTL DEF ReliableSpec
=============================================================================
