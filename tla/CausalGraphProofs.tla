------------------------- MODULE CausalGraphProofs -------------------------
(***************************************************************************)
(* Proofs about CausalGraph for every set of replicas and events: the      *)
(* indexes are derived from the events, and the event sets behave as a     *)
(* grow-only set with an atomic merge.                                     *)
(***************************************************************************)
EXTENDS CausalGraph, TLAPS

\* A graph value of the right shape.
Graph == [events   : SUBSET Event,
          children : SUBSET (Parents(Event) \X Ids(Event)),
          by_task  : SUBSET (Tasks(Event) \X Ids(Event))]

Derived(g) == /\ g.children = DerivedChildren(g.events)
              /\ g.by_task = DerivedByTask(g.events)

\* Insertion adds the event to the set of events and to nothing else: under
\* unique ids, the early return is taken exactly when the event is there.
LEMMA InsertAdds ==
  ASSUME NEW g \in Graph, NEW e \in Event
  PROVE  InsertInto(g, e).events = g.events \union {e}
<1>1. CASE e.id \in Ids(g.events)
  <2>1. PICK f \in g.events : f.id = e.id
    BY <1>1 DEF Ids
  <2>2. f = e
    BY <2>1, UniqueIds DEF Graph
  <2> QED
    BY <1>1, <2>2 DEF InsertInto
<1>2. CASE e.id \notin Ids(g.events)
  BY <1>2 DEF InsertInto
<1> QED
  BY <1>1, <1>2

\* Insertion keeps the shape of a graph.
LEMMA InsertTyped ==
  ASSUME NEW g \in Graph, NEW e \in Event
  PROVE  InsertInto(g, e) \in Graph
<1>1. CASE e.id \in Ids(g.events)
  BY <1>1 DEF InsertInto
<1>2. CASE e.id \notin Ids(g.events)
  <2>1. e.id \in Ids(Event) /\ e.task \in Tasks(Event)
    BY DEF Ids, Tasks
  <2>2. e.parents \subseteq Parents(Event)
    BY DEF Parents
  <2>3. RecordEdges(g.children, e) \in SUBSET (Parents(Event) \X Ids(Event))
    BY <2>1, <2>2 DEF RecordEdges, Graph
  <2>4. g.by_task \union {<<e.task, e.id>>} \in SUBSET (Tasks(Event) \X Ids(Event))
    BY <2>1 DEF Graph
  <2>5. g.events \union {e} \in SUBSET Event
    BY DEF Graph
  <2> QED
    BY <1>2, <2>3, <2>4, <2>5 DEF InsertInto, Graph
<1> QED
  BY <1>1, <1>2

\* Insertion maintains both indexes: recording the edges and the index entry
\* of the new event alone is enough.
LEMMA InsertDerived ==
  ASSUME NEW g \in Graph, NEW e \in Event, Derived(g)
  PROVE  Derived(InsertInto(g, e))
<1>1. CASE e.id \in Ids(g.events)
  BY <1>1 DEF InsertInto
<1>2. CASE e.id \notin Ids(g.events)
  <2> DEFINE h == InsertInto(g, e)
  <2>1. /\ h.events = g.events \union {e}
        /\ h.children = g.children \union {<<p, e.id>> : p \in e.parents}
        /\ h.by_task = g.by_task \union {<<e.task, e.id>>}
    BY <1>2 DEF InsertInto, RecordEdges
  <2>2. {<<p, e.id>> : p \in e.parents} = e.parents \X {e.id}
    OBVIOUS
  <2>3. DerivedChildren(h.events) = DerivedChildren(g.events) \union (e.parents \X {e.id})
    BY <2>1 DEF DerivedChildren
  <2>4. DerivedByTask(h.events) = DerivedByTask(g.events) \union {<<e.task, e.id>>}
    BY <2>1 DEF DerivedByTask
  <2> QED
    BY <2>1, <2>2, <2>3, <2>4 DEF Derived
<1> QED
  BY <1>1, <1>2

\* A graph whose indexes are derived is determined by its events.
LEMMA EventsDetermineGraph ==
  ASSUME NEW g \in Graph, NEW h \in Graph, Derived(g), Derived(h), g.events = h.events
  PROVE  g = h
<1>1. g.children = h.children /\ g.by_task = h.by_task
  BY DEF Derived
<1> QED
  BY <1>1 DEF Graph

\* Inserting two events in either order gives the same graph, indexes included:
\* the order in which a merge runs through its HashMap does not matter.
THEOREM InsertsCommute ==
  ASSUME NEW g \in Graph, NEW e \in Event, NEW f \in Event, Derived(g)
  PROVE  InsertInto(InsertInto(g, e), f) = InsertInto(InsertInto(g, f), e)
<1> DEFINE ge == InsertInto(g, e)
           gf == InsertInto(g, f)
<1>1. ge \in Graph /\ Derived(ge) /\ ge.events = g.events \union {e}
  BY InsertTyped, InsertDerived, InsertAdds
<1>2. gf \in Graph /\ Derived(gf) /\ gf.events = g.events \union {f}
  BY InsertTyped, InsertDerived, InsertAdds
<1> HIDE DEF ge, gf
<1>3. /\ InsertInto(ge, f) \in Graph /\ Derived(InsertInto(ge, f))
      /\ InsertInto(ge, f).events = ge.events \union {f}
  BY <1>1, InsertTyped, InsertDerived, InsertAdds
<1>4. /\ InsertInto(gf, e) \in Graph /\ Derived(InsertInto(gf, e))
      /\ InsertInto(gf, e).events = gf.events \union {e}
  BY <1>2, InsertTyped, InsertDerived, InsertAdds
<1>5. InsertInto(ge, f).events = InsertInto(gf, e).events
  BY <1>1, <1>2, <1>3, <1>4
<1>6. InsertInto(ge, f) = InsertInto(gf, e)
  BY <1>3, <1>4, <1>5, EventsDetermineGraph
<1> QED
  BY <1>6 DEF ge, gf

\* Every variable keeps the shape the code declares, in every reachable state.
THEOREM TypeCorrect == Spec => []TypeOK
<1>1. Init => TypeOK
  BY DEF Init, TypeOK, EmptyGraph
<1>2. TypeOK /\ [Next]_vars => TypeOK'
  <2> SUFFICES ASSUME TypeOK, [Next]_vars PROVE TypeOK'
    OBVIOUS
  <2>1. graph \in [Replica -> Graph]
    BY DEF TypeOK, Graph
  <2>2. ASSUME NEW r \in Replica, NEW e \in Event, Insert(r, e) PROVE TypeOK'
    <3>1. InsertInto(graph[r], e) \in Graph
      BY <2>1, InsertTyped
    <3> QED
      BY <2>1, <2>2, <3>1 DEF Insert, TypeOK, Graph
  <2>3. ASSUME NEW r \in Replica, NEW s \in Replica, MergeBegin(r, s) PROVE TypeOK'
    BY <2>3 DEF MergeBegin, TypeOK
  <2>4. ASSUME MergeStep PROVE TypeOK'
    <3>1. PICK e \in rest : /\ graph' = [graph EXCEPT ![merging] = InsertInto(@, e)]
                            /\ rest' = rest \ {e}
                            /\ merging' = merging
      BY <2>4 DEF MergeStep
    <3>2. InsertInto(graph[merging], e) \in Graph
      BY <2>1, InsertTyped DEF TypeOK
    <3> QED
      BY <2>1, <3>1, <3>2 DEF TypeOK, Graph
  <2>5. CASE UNCHANGED vars
    BY <2>5 DEF vars, TypeOK
  <2> QED
    BY <2>2, <2>3, <2>4, <2>5 DEF Next
<1> QED
  BY <1>1, <1>2, PTL DEF Spec

\* `children` and `by_task` are derived from the events in every reachable
\* state, whatever the order in which inserts and merges happen.
THEOREM IndexesAreDerived == Spec => []IndexesDerived
<1>1. Init => IndexesDerived
  BY DEF Init, IndexesDerived, EmptyGraph, DerivedChildren, DerivedByTask
<1>2. TypeOK /\ IndexesDerived /\ [Next]_vars => IndexesDerived'
  <2> SUFFICES ASSUME TypeOK, IndexesDerived, [Next]_vars PROVE IndexesDerived'
    OBVIOUS
  <2>1. graph \in [Replica -> Graph] /\ rest \subseteq Event /\ merging \in Replica
    BY DEF TypeOK, Graph
  <2>2. \A r \in Replica : Derived(graph[r])
    BY DEF IndexesDerived, Derived
  <2>3. ASSUME NEW r \in Replica, NEW e \in Event,
               graph' = [graph EXCEPT ![r] = InsertInto(@, e)]
        PROVE  IndexesDerived'
    <3>1. Derived(InsertInto(graph[r], e))
      BY <2>1, <2>2, InsertDerived
    <3>2. \A q \in Replica : Derived(graph'[q])
      BY <2>1, <2>2, <2>3, <3>1
    <3> QED
      BY <3>2 DEF IndexesDerived, Derived
  <2>4. CASE \E r \in Replica, e \in Event : Insert(r, e)
    BY <2>3, <2>4 DEF Insert
  <2>5. CASE \E r, s \in Replica : MergeBegin(r, s)
    BY <2>5 DEF MergeBegin, IndexesDerived
  <2>6. CASE MergeStep
    BY <2>1, <2>3, <2>6 DEF MergeStep
  <2>7. CASE UNCHANGED vars
    BY <2>7 DEF vars, IndexesDerived
  <2> QED
    BY <2>4, <2>5, <2>6, <2>7 DEF Next
<1> QED
  BY <1>1, <1>2, TypeCorrect, PTL DEF Spec

\* Replicas that hold the same events are equal in every field, however each came
\* by them: comparing event ids, as the convergence check does, compares graphs.
EqualEventsEqualGraphs ==
  \A r, s \in Replica : graph[r].events = graph[s].events => graph[r] = graph[s]

\* Strong eventual consistency of the causal graph: in every reachable state, in
\* the middle of a merge too, equal event sets are equal graphs.
THEOREM EqualEventsAreEqualGraphs == Spec => []EqualEventsEqualGraphs
<1>1. TypeOK /\ IndexesDerived => EqualEventsEqualGraphs
  <2> SUFFICES ASSUME TypeOK, IndexesDerived, NEW r \in Replica, NEW s \in Replica,
                      graph[r].events = graph[s].events
               PROVE  graph[r] = graph[s]
    BY DEF EqualEventsEqualGraphs
  <2>1. graph[r] \in Graph /\ graph[s] \in Graph
    BY DEF TypeOK, Graph
  <2>2. Derived(graph[r]) /\ Derived(graph[s])
    BY DEF IndexesDerived, Derived
  <2> QED
    BY <2>1, <2>2, EventsDetermineGraph
<1> QED
  BY <1>1, TypeCorrect, IndexesAreDerived, PTL

\* The index-driven lookup of a task's events finds all of them and only them.
THEOREM TaskLookupIsComplete == Spec => []TaskLookupComplete
<1>1. TypeOK /\ IndexesDerived => TaskLookupComplete
  <2> SUFFICES ASSUME TypeOK, IndexesDerived,
                      NEW r \in Replica, NEW t \in Tasks(Event)
               PROVE  EventsForTask(graph[r], t) = {e \in graph[r].events : e.task = t}
    BY DEF TaskLookupComplete
  <2>1. graph[r].events \subseteq Event
    BY DEF TypeOK
  <2>2. graph[r].by_task = DerivedByTask(graph[r].events)
    BY DEF IndexesDerived
  <2>3. ASSUME NEW e \in graph[r].events
        PROVE  <<t, e.id>> \in graph[r].by_task <=> e.task = t
    <3>1. ASSUME <<t, e.id>> \in graph[r].by_task PROVE e.task = t
      <4>1. PICK f \in graph[r].events : <<t, e.id>> = <<f.task, f.id>>
        BY <3>1, <2>2 DEF DerivedByTask
      <4>2. f = e
        BY <2>1, <4>1, UniqueIds
      <4> QED
        BY <4>1, <4>2
    <3>2. ASSUME e.task = t PROVE <<t, e.id>> \in graph[r].by_task
      BY <2>2, <3>2 DEF DerivedByTask
    <3> QED
      BY <3>1, <3>2
  <2> QED
    BY <2>3 DEF EventsForTask
<1> QED
  BY <1>1, TypeCorrect, IndexesAreDerived, PTL

\* The graph implements the grow-only set: a merge takes effect at once when it
\* begins, and the order of its loop cannot be observed.
THEOREM ImplementsGrowOnlySet == Spec => Refinement
<1>1. Init => Abstract!Init
  BY DEF Init, EmptyGraph, known, Abstract!Init
<1>2. TypeOK /\ [Next]_vars => [Abstract!Next]_known
  <2> SUFFICES ASSUME TypeOK, [Next]_vars PROVE [Abstract!Next]_known
    OBVIOUS
  <2>1. graph \in [Replica -> Graph] /\ rest \subseteq Event /\ merging \in Replica
    BY DEF TypeOK, Graph
  <2>2. ASSUME NEW r \in Replica, NEW e \in Event, Insert(r, e)
        PROVE  Abstract!Next
    <3>1. InsertInto(graph[r], e).events = graph[r].events \union {e}
      BY <2>1, InsertAdds
    <3>2. known' = [known EXCEPT ![r] = @ \union {e}]
      BY <2>1, <2>2, <3>1 DEF Insert, known
    <3> QED
      BY <3>2 DEF Abstract!Next, Abstract!Add
  <2>3. ASSUME NEW r \in Replica, NEW s \in Replica, MergeBegin(r, s)
        PROVE  Abstract!Next
    <3>1. known' = [known EXCEPT ![r] = @ \union known[s]]
      BY <2>1, <2>3 DEF MergeBegin, known
    <3> QED
      BY <3>1 DEF Abstract!Next, Abstract!Join
  <2>4. ASSUME MergeStep PROVE UNCHANGED known
    <3>1. PICK e \in rest : /\ graph' = [graph EXCEPT ![merging] = InsertInto(@, e)]
                            /\ rest' = rest \ {e}
                            /\ merging' = merging
      BY <2>4 DEF MergeStep
    <3>2. InsertInto(graph[merging], e).events = graph[merging].events \union {e}
      BY <2>1, InsertAdds
    <3>3. \A r \in Replica : known'[r] = known[r]
      BY <2>1, <3>1, <3>2 DEF known
    <3> QED
      BY <3>3 DEF known
  <2>5. CASE UNCHANGED vars
    BY <2>5 DEF vars, known
  <2> QED
    BY <2>2, <2>3, <2>4, <2>5 DEF Next
<1> QED
  BY <1>1, <1>2, TypeCorrect, PTL DEF Spec, Refinement, Abstract!Spec
=============================================================================
