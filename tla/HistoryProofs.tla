---------------------------- MODULE HistoryProofs ----------------------------
(***************************************************************************)
(* What every module that stages events needs to know of the history of    *)
(* staged events, for any set of nodes and tasks, any seed and any number  *)
(* of events: ids are drawn once, and the past of an event is the least    *)
(* set that is closed under parents.                                       *)
(***************************************************************************)
EXTENDS Node, LeastNumbers

\* What the history of staged events is like: ids are drawn from the counter and
\* never again; the recorded past of an event is the least set of ids that holds
\* its parents and, with an issued event, that event's parents; and it holds
\* older ids only.
IdsDrawn == \A i \in issued : i.event.id < next

IdsOnce == \A i, j \in issued : i.event.id = j.event.id => i = j

PastOlder == \A i \in issued : \A a \in i.past : a < i.event.id

PastClosed == \A i \in issued : /\ i.event.parents \subseteq i.past
                                /\ \A j \in issued : j.event.id \in i.past => j.past \subseteq i.past

PastLeast == \A i \in issued : \A S \in SUBSET EventId :
               i.event.parents \subseteq S /\ AncestorClosed(History, S) => i.past \subseteq S

HistoryInv == IdsDrawn /\ IdsOnce /\ PastOlder /\ PastClosed /\ PastLeast

-----------------------------------------------------------------------------
(* Staging --------------------------------------------------------------- *)

\* A node's frontier names events that have been staged.
LEMMA FrontierIssued ==
  ASSUME NEW n \in Node, NEW t, graph[n] \subseteq History, outbox[n] \subseteq History
  PROVE  FrontierFor(n, t) \subseteq Ids(History)
<1>1. Known(n) \subseteq History
  BY DEF Known, InsertAll
<1> QED
  BY <1>1 DEF FrontierFor, ExtractTaskSubgraph, Ids

\* Staged events are events with ids in range.
LEMMA HistoryTyped ==
  ASSUME NodeTypeOK
  PROVE  History \subseteq Event /\ Ids(History) \subseteq EventId
BY DEF NodeTypeOK, History, Event, Ids

\* Event ids are integers.
LEMMA IdsAreNumbers == EventId \subseteq Int
BY CounterAssumption DEF EventId

\* The past of an event consists of ids.
LEMMA PastTyped ==
  ASSUME NodeTypeOK, NEW parents \in SUBSET EventId
  PROVE  Past(parents) \subseteq EventId
BY DEF Past, NodeTypeOK

\* What is staged is an event.
LEMMA NewEventTyped ==
  ASSUME NodeTypeOK, NEW n \in Node, NEW kind \in Kinds, NEW t \in Task,
         NEW parents \in SUBSET EventId, next < Seed + MaxEvents
  PROVE  NewEvent(n, kind, t, parents) \in Event
<1>1. next \in EventId
  BY CounterAssumption DEF NodeTypeOK, EventId
<1>2. kind \in {"Create", "Claim", "Complete"}
  BY CounterAssumption DEF Kind
<1>3. CASE kind = "Create"
  BY <1>1, <1>3 DEF NewEvent, Event
<1>4. CASE kind \in {"Claim", "Complete"}
  BY <1>1, <1>4 DEF NewEvent, Event
<1> QED
  BY <1>2, <1>3, <1>4

\* The past of a new event is closed: with an issued event it holds that event's
\* past.
LEMMA NewPastClosed ==
  ASSUME HistoryInv, NEW parents, NEW j \in issued, j.event.id \in Past(parents)
  PROVE  j.past \subseteq Past(parents)
<1>1. CASE j.event.id \in parents
  BY <1>1 DEF Past
<1>2. CASE j.event.id \notin parents
  <2>1. PICK k \in issued : k.event.id \in parents /\ j.event.id \in k.past
    BY <1>2 DEF Past
  <2> QED
    BY <2>1 DEF Past, HistoryInv, PastClosed
<1> QED
  BY <1>1, <1>2

\* A record added to the issued ones adds its event to the history.
LEMMA HistoryGrows ==
  ASSUME NEW e, NEW n, NEW past,
         issued' = issued \union {[event |-> e, by |-> n, past |-> past]}
  PROVE  History' = History \union {e}
<1> DEFINE x == [event |-> e, by |-> n, past |-> past]
<1>1. x.event = e
  OBVIOUS
<1> HIDE DEF x
<1>2. issued' = issued \union {x}
  BY DEF x
<1> QED
  BY <1>1, <1>2 DEF History

\* Staging an event that cites issued ids keeps the history as described: the
\* new event is the only one with its id, and no older event depends on it.
LEMMA StageKeepsHistory ==
  ASSUME NodeTypeOK, HistoryInv, NEW n \in Node, NEW kind \in Kinds, NEW t \in Task,
         NEW parents \in SUBSET Ids(History), Stage(n, kind, t, parents)
  PROVE  HistoryInv'
<1> DEFINE e == NewEvent(n, kind, t, parents)
           x == [event |-> e, by |-> n, past |-> Past(parents)]
<1>1. /\ issued' = issued \union {x} /\ next' = next + 1
      /\ x.event.id = next /\ x.event.parents = parents /\ x.past = Past(parents)
  BY DEF Stage, Push, NewEvent
<1>2. next \in Int
  BY CounterAssumption DEF NodeTypeOK
<1>3. \A i \in issued : i.event.id \in Int /\ i.event.id < next
  BY IdsAreNumbers, HistoryTyped DEF HistoryInv, IdsDrawn, History, Ids
<1>4. \A a \in parents : a \in Int /\ a < next
  BY <1>3 DEF History, Ids
<1>5. \A i \in issued : \A a \in i.past : a \in Int /\ a < i.event.id
  BY IdsAreNumbers DEF HistoryInv, PastOlder, NodeTypeOK
<1>6. \A a \in Past(parents) : a \in Int /\ a < next
  BY <1>2, <1>3, <1>4, <1>5 DEF Past
<1>7. History' = History \union {e}
  BY <1>1, HistoryGrows
<1>8. IdsDrawn'
  BY <1>1, <1>2, <1>3 DEF IdsDrawn
<1>9. IdsOnce'
  BY <1>1, <1>2, <1>3 DEF IdsOnce, HistoryInv
<1>10. PastOlder'
  BY <1>1, <1>5, <1>6 DEF PastOlder
<1>11. PastClosed'
  <2>1. ASSUME NEW i \in issued
        PROVE  /\ i.event.parents \subseteq i.past
               /\ \A j \in issued' : j.event.id \in i.past => j.past \subseteq i.past
    <3>1. x.event.id \notin i.past
      BY <1>1, <1>2, <1>3, <1>5
    <3> QED
      BY <1>1, <3>1 DEF HistoryInv, PastClosed
  <2>2. /\ x.event.parents \subseteq x.past
        /\ \A j \in issued' : j.event.id \in x.past => j.past \subseteq x.past
    <3>1. x.event.id \notin x.past
      BY <1>1, <1>2, <1>6
    <3>2. x.event.parents \subseteq x.past
      BY <1>1 DEF Past
    <3> QED
      BY <1>1, <3>1, <3>2, NewPastClosed
  <2> QED
    BY <1>1, <2>1, <2>2 DEF PastClosed
<1>12. PastLeast'
  <2> SUFFICES ASSUME NEW i \in issued', NEW S \in SUBSET EventId,
                      i.event.parents \subseteq S, AncestorClosed(History', S)
               PROVE  i.past \subseteq S
    BY DEF PastLeast
  <2>1. AncestorClosed(History, S)
    BY <1>7 DEF AncestorClosed, ParentsIn
  <2>2. CASE i \in issued
    BY <2>1, <2>2 DEF HistoryInv, PastLeast
  <2>3. CASE i = x
    <3>1. ASSUME NEW k \in issued, k.event.id \in parents PROVE k.past \subseteq S
      <4>1. k.event \in History /\ k.event.id \in S
        BY <1>1, <2>3, <3>1 DEF History
      <4>2. k.event.parents \subseteq S
        BY <2>1, <4>1 DEF AncestorClosed, ParentsIn
      <4> QED
        BY <2>1, <4>2 DEF HistoryInv, PastLeast
    <3> QED
      BY <1>1, <2>3, <3>1 DEF Past
  <2> QED
    BY <1>1, <2>2, <2>3
<1> QED
  BY <1>8, <1>9, <1>10, <1>11, <1>12 DEF HistoryInv

\* Staging keeps the types of what nodes hold.
LEMMA StageTyped ==
  ASSUME NodeTypeOK, NEW n \in Node, NEW kind \in Kinds, NEW t \in Task,
         NEW parents \in SUBSET EventId, Stage(n, kind, t, parents)
  PROVE  NodeTypeOK'
<1> DEFINE e == NewEvent(n, kind, t, parents)
           x == [event |-> e, by |-> n, past |-> Past(parents)]
<1>1. /\ issued' = issued \union {x} /\ next' = next + 1 /\ next < Seed + MaxEvents
      /\ outbox' = [outbox EXCEPT ![n] = @ \union {e}]
      /\ UNCHANGED <<graph, inbox>>
  BY DEF Stage, Push, NewEvent
<1>2. e \in Event
  BY <1>1, NewEventTyped
<1> HIDE DEF e
<1>3. x \in [event : Event, by : Node, past : SUBSET EventId]
  BY <1>2, PastTyped
<1>4. outbox' \in [Node -> SUBSET Event]
  BY <1>1, <1>2 DEF NodeTypeOK
<1>5. next' \in Seed .. Seed + MaxEvents
  BY <1>1, CounterAssumption DEF NodeTypeOK
<1> QED
  BY <1>1, <1>3, <1>4, <1>5 DEF NodeTypeOK

\* What is staged joins the outbox of its node and the history, and nothing else.
LEMMA StageHolds ==
  ASSUME NodeTypeOK, NEW n \in Node, NEW kind, NEW t, NEW parents, Stage(n, kind, t, parents)
  PROVE  /\ History \subseteq History'
         /\ \A m \in Node : outbox'[m] \subseteq outbox[m] \union History'
         /\ UNCHANGED <<graph, inbox>>
<1> DEFINE e == NewEvent(n, kind, t, parents)
<1>1. /\ issued' = issued \union {[event |-> e, by |-> n, past |-> Past(parents)]}
      /\ outbox' = [outbox EXCEPT ![n] = @ \union {e}]
      /\ UNCHANGED <<graph, inbox>>
  BY DEF Stage, Push, NewEvent
<1> HIDE DEF e
<1>2. History' = History \union {e}
  BY <1>1, HistoryGrows DEF NewEvent
<1>3. \A m \in Node : outbox'[m] \subseteq outbox[m] \union {e}
  BY <1>1 DEF NodeTypeOK
<1> QED
  BY <1>1, <1>2, <1>3

-----------------------------------------------------------------------------
(* The other steps ------------------------------------------------------- *)

\* Among issued events insertion is set union: no id is there twice.
LEMMA InsertAllIsUnion ==
  ASSUME HistoryInv, NEW G, NEW S, G \subseteq History, S \subseteq History
  PROVE  InsertAll(G, S) = G \union S
<1>1. \A e, f \in History : e.id = f.id => e = f
  BY DEF HistoryInv, IdsOnce, History
<1> QED
  BY <1>1 DEF InsertAll, Ids

\* Of staged events, the id tells which.
LEMMA OneEventPerId ==
  ASSUME HistoryInv, NEW e \in History, NEW f \in History, e.id = f.id
  PROVE  e = f
BY DEF HistoryInv, IdsOnce, History

\* The history is as it was, whatever else a step does.
LEMMA HistoryKept ==
  ASSUME HistoryInv, UNCHANGED <<next, issued>> PROVE HistoryInv'
BY DEF HistoryInv, IdsDrawn, IdsOnce, PastOlder, PastClosed, PastLeast, History,
       AncestorClosed, ParentsIn
=============================================================================
