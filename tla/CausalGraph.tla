---------------------------- MODULE CausalGraph ----------------------------
(***************************************************************************)
(* The causal-graph CRDT of crdt_core: an append-only set of events with   *)
(* two indexes that are maintained incrementally, insertion of one event,  *)
(* and merge, which inserts the other replica's events one by one in the   *)
(* (arbitrary) iteration order of a HashMap.                               *)
(*                                                                         *)
(* Only `insert` and `merge` mutate a graph, and a merge holds its graph   *)
(* exclusively until its loop ends, so no other insert runs meanwhile.     *)
(***************************************************************************)
EXTENDS FiniteSets

CONSTANTS Replica,      \* holders of a CausalGraph value
          Event         \* the events that may be inserted: [id, task, parents]

\* "Correctness assumes `EventId`s are globally unique" (causal_graph.rs:27);
\* Simulation.tla shows that the nodes of this program keep the promise.
ASSUME UniqueIds == \A e, f \in Event : e.id = f.id => e = f

VARIABLES graph,        \* replica -> its CausalGraph
          merging,      \* the replica whose merge ran last
          rest          \* events that merge has still to insert

vars == <<graph, merging, rest>>

Ids(S) == {e.id : e \in S}
Parents(S) == UNION {e.parents : e \in S}
Tasks(S) == {e.task : e \in S}

(* The CausalGraph value and its operations ------------------------------ *)

EmptyGraph == [events |-> {}, children |-> {}, by_task |-> {}]

\* Mutant: the edge is recorded from the child to the parent.
RecordEdgesReversed(children, e) == children \union {<<e.id, p>> : p \in e.parents}

RecordEdges(children, e) == children \union {<<p, e.id>> : p \in e.parents}

\* Mutant: only edges from parents that have arrived are recorded.
InsertKnownParents(g, e) ==
  IF e.id \in Ids(g.events)
  THEN g
  ELSE [events   |-> g.events \union {e},
        children |-> g.children \union {<<p, e.id>> : p \in e.parents \intersect Ids(g.events)},
        by_task  |-> g.by_task \union {<<e.task, e.id>>}]

\* Mutant: an event whose task has an entry already is not added to the index.
InsertFirstOfTask(g, e) ==
  IF e.id \in Ids(g.events)
  THEN g
  ELSE [events   |-> g.events \union {e},
        children |-> RecordEdges(g.children, e),
        by_task  |-> IF e.task \in Tasks(g.events) THEN g.by_task
                     ELSE g.by_task \union {<<e.task, e.id>>}]

InsertInto(g, e) ==
  IF e.id \in Ids(g.events)
  THEN g
  ELSE [events   |-> g.events \union {e},
        children |-> RecordEdges(g.children, e),
        by_task  |-> g.by_task \union {<<e.task, e.id>>}]

EventsForTask(g, t) == {e \in g.events : <<t, e.id>> \in g.by_task}

\* What the metrics report as edge count: the number of keys of `children`.
EdgeCount(g) == Cardinality({edge[1] : edge \in g.children})

(* Behaviour ------------------------------------------------------------- *)

Init == /\ graph = [r \in Replica |-> EmptyGraph]
        /\ merging \in Replica
        /\ rest = {}

Insert(r, e) == /\ rest = {}
                /\ graph' = [graph EXCEPT ![r] = InsertInto(@, e)]
                /\ UNCHANGED <<merging, rest>>

MergeBegin(r, s) == /\ rest = {}
                    /\ merging' = r
                    /\ rest' = graph[s].events
                    /\ UNCHANGED graph

\* Mutant: the early return for a known id leaves the whole merge.
MergeStepReturns == \E e \in rest :
                      /\ graph' = [graph EXCEPT ![merging] = InsertInto(@, e)]
                      /\ rest' = IF e \in graph[merging].events THEN {} ELSE rest \ {e}
                      /\ UNCHANGED merging

MergeStep == \E e \in rest :
               /\ graph' = [graph EXCEPT ![merging] = InsertInto(@, e)]
               /\ rest' = rest \ {e}
               /\ UNCHANGED merging

Next == \/ \E r \in Replica, e \in Event : Insert(r, e)
        \/ \E r, s \in Replica : MergeBegin(r, s)
        \/ MergeStep

Spec == Init /\ [][Next]_vars

(* Properties ------------------------------------------------------------ *)

\* Every variable has the shape the code declares.
TypeOK ==
  /\ graph \in [Replica -> [events   : SUBSET Event,
                            children : SUBSET (Parents(Event) \X Ids(Event)),
                            by_task  : SUBSET (Tasks(Event) \X Ids(Event))]]
  /\ merging \in Replica
  /\ rest \in SUBSET Event

DerivedChildren(S) == UNION {e.parents \X {e.id} : e \in S}
DerivedByTask(S) == {<<e.task, e.id>> : e \in S}

\* "`children` and `by_task` are pure indexes: both are fully derived from the
\* events themselves": whatever the order of inserts and merges, also in the
\* middle of a merge, the incrementally maintained indexes are what a scan of
\* the events would build. So replicas with equal events are equal graphs.
IndexesDerived ==
  \A r \in Replica :
    /\ graph[r].children = DerivedChildren(graph[r].events)
    /\ graph[r].by_task = DerivedByTask(graph[r].events)

\* events_for_task, which reads the index and drops ids without an event, finds
\* exactly the events on the task: no lookup is stale and none is missed.
TaskLookupComplete ==
  \A r \in Replica : \A t \in Tasks(Event) :
    EventsForTask(graph[r], t) = {e \in graph[r].events : e.task = t}

\* Seen from outside, a merge happens at once when it begins: what its loop has
\* still to insert counts as known already. Under that mapping the graph is a
\* grow-only set whose merge is set union, in every order of the loop.
known == [r \in Replica |-> graph[r].events \union (IF r = merging THEN rest ELSE {})]

Abstract == INSTANCE GrowOnlySet WITH known <- known

Refinement == Abstract!Spec

\* "Number of causal edges (parent -> child links) in each node's graph"
\* (README.md:378) is what `edge_counts` is said to be.
EdgeCountIsEdges ==
  \A r \in Replica : EdgeCount(graph[r]) = Cardinality(graph[r].children)
=============================================================================
