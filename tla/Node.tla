------------------------------- MODULE Node -------------------------------
(***************************************************************************)
(* node_sim/src/node.rs: what a node holds (graph, outbox, inbox) and how  *)
(* it stages an event: with parents wired by hand (the `_next` operations) *)
(* or taken from its own causal frontier (the `_auto` operations). Ids     *)
(* come from the one EventCounter that all nodes of a run share.           *)
(***************************************************************************)
EXTENDS TaskModel

CONSTANTS Node,             \* the NodeIds: numbers, for the lowest one wins
          Task,
          Seed,             \* where the EventCounter starts
          MaxEvents,        \* bound: how many events a behaviour may stage
          Kinds,            \* bound: the operations that are staged
          Wiring            \* the ways parents are wired: "manual", "auto"

ASSUME NodesAreNumbers == Node \subseteq Nat /\ None \notin Node
ASSUME CounterAssumption == Seed \in Nat /\ MaxEvents \in Nat /\ Kinds \subseteq Kind

VARIABLES graph,            \* node -> the events of its CausalGraph
          outbox, inbox,    \* node -> staged events, received events
          next,             \* the EventCounter
          issued            \* history: every event staged so far, by whom, and
                            \* the ids of all events it causally depends on

nodeVars == <<graph, outbox, inbox, next, issued>>

EventId == Seed .. Seed + MaxEvents - 1

Event == [id : EventId, kind : {"Create"}, task : Task, node : {None},
          parents : SUBSET EventId]
           \union [id : EventId, kind : {"Claim", "Complete"}, task : Task, node : Node,
                   parents : SUBSET EventId]

NodeTypeOK == /\ graph \in [Node -> SUBSET Event]
              /\ outbox \in [Node -> SUBSET Event]
              /\ inbox \in [Node -> SUBSET Event]
              /\ next \in Seed .. Seed + MaxEvents
              /\ issued \in SUBSET [event : Event, by : Node, past : SUBSET EventId]

NodeInit == /\ graph = [n \in Node |-> {}]
            /\ outbox = [n \in Node |-> {}]
            /\ inbox = [n \in Node |-> {}]
            /\ next = Seed
            /\ issued = {}

History == {i.event : i \in issued}

\* The causal past of an event with these parents, recorded when it is staged.
Past(parents) == parents \union UNION {i.past : i \in {j \in issued : j.event.id \in parents}}

\* Insert the events of S into G in turn, skipping ids that G holds already.
InsertAll(G, S) == G \union {e \in S : e.id \notin Ids(G)}

\* A node's own view: its graph and what it has staged but not yet sent.
Known(n) == InsertAll(graph[n], outbox[n])

\* Mutant: only the graph counts, the outbox is forgotten.
FrontierOfGraph(n, t) ==
  LET sub == ExtractTaskSubgraph(graph[n], t)
  IN  {e.id : e \in {x \in sub : \A child \in sub : x.id \notin child.parents}}

\* The known events on the task that have no known child within the task.
FrontierFor(n, t) ==
  LET sub == ExtractTaskSubgraph(Known(n), t)
  IN  {e.id : e \in {x \in sub : \A child \in sub : x.id \notin child.parents}}

NewEvent(n, kind, t, parents) ==
  [id |-> next, kind |-> kind, task |-> t,
   node |-> IF kind = "Create" THEN None ELSE n, parents |-> parents]

\* create_task, claim_task and complete_task push the event to the outbox.
Push(n, event) ==
  /\ outbox' = [outbox EXCEPT ![n] = @ \union {event}]
  /\ issued' = issued \union {[event |-> event, by |-> n, past |-> Past(event.parents)]}
  /\ UNCHANGED <<graph, inbox>>

\* Mutant: the counter is read but not advanced.
StageSameId(n, kind, t, parents) ==
  /\ next < Seed + MaxEvents
  /\ Push(n, NewEvent(n, kind, t, parents))
  /\ UNCHANGED next

\* Mutant: next_id advances the counter before it reads it.
StageAdvancedId(n, kind, t, parents) ==
  /\ next < Seed + MaxEvents
  /\ Push(n, [NewEvent(n, kind, t, parents) EXCEPT !.id = next + 1])
  /\ next' = next + 1

\* create_task_next, claim_task_next and complete_task_next draw the next id.
Stage(n, kind, t, parents) ==
  /\ next < Seed + MaxEvents
  /\ Push(n, NewEvent(n, kind, t, parents))
  /\ next' = next + 1

\* The caller wires the parents: "real, already-issued ids", known to the node
\* or not (causal_graph.rs:92-96).
StageManual(n, kind, t) ==
  /\ "manual" \in Wiring
  /\ \E parents \in SUBSET Ids(History) : Stage(n, kind, t, parents)

\* create_task_auto, claim_task_auto and complete_task_auto.
StageAuto(n, kind, t) ==
  /\ "auto" \in Wiring
  /\ Stage(n, kind, t, FrontierFor(n, t))
=============================================================================
