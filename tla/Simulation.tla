----------------------------- MODULE Simulation -----------------------------
(***************************************************************************)
(* node_sim/src/simulation.rs: nodes that broadcast what they staged, over *)
(* queues that deliver_all empties into the graphs, with dropped messages, *)
(* partitions, and the catch-up of a healed node from a peer's graph.      *)
(*                                                                         *)
(* A queue is given by the events of the messages in it: this module does  *)
(* not tell messages apart, and broadcasting an empty outbox is a stutter. *)
(***************************************************************************)
EXTENDS Node

VARIABLES message_queues,   \* node -> events in flight to it
          partitioned       \* the nodes marked as cut off

vars == <<nodeVars, message_queues, partitioned>>

\* Every variable has the shape the code declares: a queue is the set of the
\* events of its messages.
TypeOK == /\ NodeTypeOK
          /\ message_queues \in [Node -> SUBSET Event]
          /\ partitioned \in SUBSET Node

Init == /\ NodeInit
        /\ message_queues = [n \in Node |-> {}]
        /\ partitioned = {}

StageEvent == /\ \E n \in Node, kind \in Kinds, t \in Task :
                   StageManual(n, kind, t) \/ StageAuto(n, kind, t)
              /\ UNCHANGED <<message_queues, partitioned>>

EmptyOutbox(s) == outbox' = [outbox EXCEPT ![s] = {}]

\* collect_outbox_as_message, then one copy of the message per queue in `to`.
Send(s, to) ==
  /\ EmptyOutbox(s)
  /\ message_queues' = [n \in Node |-> IF n \in to
                                       THEN message_queues[n] \union outbox[s]
                                       ELSE message_queues[n]]
  /\ UNCHANGED <<graph, inbox, next, issued, partitioned>>

\* Mutant: the sender does not get its own message back.
BroadcastToOthers(s) == Send(s, Node \ {s})

\* `broadcast` sends to everyone, partitioned or not.
Broadcast(s) == Send(s, Node)

\* Mutant: the sender is skipped like any other node when it is to be dropped.
SendDroppingSender(s, drops) ==
  /\ s \notin partitioned
  /\ Send(s, Node \ (partitioned \union drops))

\* broadcast_with_failures: the sender always gets its own message.
SendWithDrops(s, drops) ==
  /\ s \notin partitioned
  /\ Send(s, {s} \union (Node \ (partitioned \union drops)))

\* broadcast_with_failures by a partitioned sender: "its outbox is silently
\* drained and no messages are enqueued for anyone, including itself".
DrainSilently(s) ==
  /\ s \in partitioned
  /\ EmptyOutbox(s)
  /\ UNCHANGED <<graph, inbox, next, issued, message_queues, partitioned>>

BroadcastWithFailures(s) == \/ \E drops \in SUBSET Node : SendWithDrops(s, drops)
                            \/ DrainSilently(s)

\* Mutant: the queue of a partitioned node is drained but not processed.
DeliverAllConnected ==
  /\ graph' = [n \in Node |-> IF n \in partitioned THEN graph[n]
                              ELSE InsertAll(graph[n], inbox[n] \union message_queues[n])]
  /\ inbox' = [n \in Node |-> {}]
  /\ message_queues' = [n \in Node |-> {}]
  /\ UNCHANGED <<outbox, next, issued, partitioned>>

\* deliver_all: every queue moves into its node's inbox, which is processed.
\* It does not look at `partitioned`.
DeliverAll ==
  /\ graph' = [n \in Node |-> InsertAll(graph[n], inbox[n] \union message_queues[n])]
  /\ inbox' = [n \in Node |-> {}]
  /\ message_queues' = [n \in Node |-> {}]
  /\ UNCHANGED <<outbox, next, issued, partitioned>>

Partition(n) == /\ partitioned' = partitioned \union {n}
                /\ UNCHANGED <<nodeVars, message_queues>>

Heal(n) == /\ partitioned' = partitioned \ {n}
           /\ UNCHANGED <<nodeVars, message_queues>>

\* Anti-entropy of a reconnecting node, as in the partition scenarios: a peer's
\* whole graph is pushed into its inbox (scenarios.rs:96-103).
CatchUp(source, n) == /\ inbox' = [inbox EXCEPT ![n] = @ \union graph[source]]
                      /\ UNCHANGED <<graph, outbox, next, issued, message_queues, partitioned>>

ReliableNext == \/ StageEvent
                \/ \E s \in Node : Broadcast(s)
                \/ DeliverAll

Next == \/ ReliableNext
        \/ \E s \in Node : BroadcastWithFailures(s)
        \/ \E n \in Node : Partition(n) \/ Heal(n)
        \/ \E source, n \in Node : CatchUp(source, n)

\* Anything the harness offers, in any order.
Spec == Init /\ [][Next]_vars

\* No failures. Every round of a scenario broadcasts what was staged and then
\* delivers (scenarios.rs:26-30 and its callers), hence the fairness.
ReliableSpec == /\ Init /\ [][ReliableNext]_vars
                /\ WF_vars(DeliverAll)
                /\ \A s \in Node : WF_vars(Broadcast(s))

(* Safety ---------------------------------------------------------------- *)

Everywhere == UNION {graph[n] \union outbox[n] \union inbox[n] \union message_queues[n] :
                       n \in Node}

\* Two events with one id are the same event, wherever they are: the debug_assert
\* of CausalGraph::insert never fires, and the order of insertion never matters.
EventIdsUnique == \A e, f \in Everywhere : e.id = f.id => e = f

\* Event a is in the causal past that b had when it was staged.
HappenedBefore(a, b) == \E i \in issued : i.event = b /\ a.id \in i.past

GenuinelyConcurrent(S) ==
  \E a, b \in S : a # b /\ ~HappenedBefore(a, b) /\ ~HappenedBefore(b, a)

\* Two claims (or completions) that a node holds were staged with neither in the
\* causal past of the other: what a conflict is, with no reference to any graph.
GenuineConflict(n, t) == \/ GenuinelyConcurrent(Claims(graph[n], t))
                         \/ GenuinelyConcurrent(Completions(graph[n], t))

\* "Concurrent, conflicting actions are never silently dropped" (README.md:43):
\* a node that holds two concurrent claims flags the conflict, whatever else it
\* has or has not received.
ConflictsFlagged ==
  \A n \in Node, t \in Task :
    GenuineConflict(n, t) => DeriveTaskState(graph[n], t).has_conflict

ParentClosed(G) == Mentioned(G) \subseteq Ids(G)

\* A node that is missing no parent of what it holds flags nothing else.
NoConflictImagined ==
  \A n \in Node, t \in Task :
    ParentClosed(graph[n]) /\ DeriveTaskState(graph[n], t).has_conflict => GenuineConflict(n, t)

\* A task that a node has seen claimed has an owner in its eyes, and completed a
\* completer: causality among real events has no cycle, so some claim stands.
ClaimedTaskHasOwner ==
  \A n \in Node, t \in Task :
    LET state == DeriveTaskState(graph[n], t)
    IN  /\ state.resolved_claimant = None <=> Claims(graph[n], t) = {}
        /\ state.resolved_completer = None <=> Completions(graph[n], t) = {}

\* Once an event is in some graph, its author has it too or will at the next
\* delivery: a dropped message, a partition or a catch-up never leaves a node
\* behind the others on its own actions.
AuthorKeepsOwn ==
  \A i \in issued, n \in Node :
    i.event \in graph[n] => i.event \in graph[i.by] \union message_queues[i.by]

\* "Passing this frontier as causal_parents for a new event makes it depend on
\* everything this node currently knows about the task" (node.rs:112-114): whatever
\* a node's graph and outbox hold of a task precedes the event that it would stage
\* now with automatic wiring, even if events in between never reached the node or
\* belong to another task.
AutoDependsOnAllKnown ==
  \A n \in Node, t \in Task, kind \in Kinds :
    LET e == NewEvent(n, kind, t, FrontierFor(n, t))
    IN  \A k \in ExtractTaskSubgraph(Known(n), t) : Precedes(Known(n) \union {e}, k.id, e.id)

(* Action properties ----------------------------------------------------- *)

\* An event disappears from the whole system only when a partitioned author
\* broadcasts it: no other step, drop or partition destroys an action.
LostOnlyByCutOffAuthor ==
  [][\A i \in issued : i.event \in Everywhere /\ i.event \notin Everywhere'
                         => i.by \in partitioned]_vars

\* "both sides are retained, never overwritten" (README.md:400-402): what was
\* a conflict in a node's eyes is flagged ever after, whatever else arrives and
\* whichever other claims supersede its two sides.
ConflictsStay ==
  [][\A n \in Node, t \in Task :
       GenuineConflict(n, t) => DeriveTaskState(graph'[n], t).has_conflict]_vars

\* The owner a node sees changes only for a cause: the new owner's claim has just
\* arrived, or each claim of the old owner is superseded by now.
OwnerChangesForCause ==
  [][\A n \in Node, t \in Task :
       LET old == Resolve(graph[n], Claims(graph[n], t))
           new == Resolve(graph'[n], Claims(graph'[n], t))
       IN  graph'[n] # graph[n] /\ old # None /\ new # old =>
             \/ \E e \in Claims(graph'[n], t) \ graph[n] : e.node = new
             \/ \A e \in Claims(graph[n], t) :
                  e.node = old => Superseded(graph'[n], Claims(graph'[n], t), e)]_vars

(* Without failures ------------------------------------------------------ *)

\* All nodes are in lock-step: the same graph and the same events in flight.
LockStep == \A m, n \in Node : /\ graph[m] = graph[n]
                               /\ message_queues[m] = message_queues[n]

\* When nothing is staged or in flight, every graph is the whole history: what is
\* not on its way to a node has arrived there.
SettledIsComplete ==
  (\A n \in Node : outbox[n] = {} /\ message_queues[n] = {})
    => \A n \in Node : graph[n] = History

\* With automatic wiring no graph is ever missing a parent, so the conflicts that
\* the nodes flag are exactly the genuine ones.
AutoNeverMissesParent == \A n \in Node : ParentClosed(graph[n])

\* Every staged event reaches every graph.
EventuallyEverywhere ==
  \A id \in EventId :
    id \in Ids(History) ~> \A n \in Node : id \in Ids(graph[n])

(* Statements of the documentation --------------------------------------- *)

\* "a node's own pending actions are visible to itself immediately rather than
\* only after a full broadcast/deliver round-trip" (node.rs:110-112): a node's
\* own automatically wired events on a task would never be concurrent.
OwnEventsOrdered ==
  \A i, j \in issued :
    i.by = j.by /\ i.event.task = j.event.task /\ i # j
      => HappenedBefore(i.event, j.event) \/ HappenedBefore(j.event, i.event)

\* "A later claim that causally follows an earlier claim is *not* a conflict"
\* (task_model/src/lib.rs:47-49): no conflict is flagged without a concurrent pair.
NoSpuriousConflict ==
  \A n \in Node, t \in Task :
    DeriveTaskState(graph[n], t).has_conflict => GenuineConflict(n, t)

\* "Marks a node as partitioned; it will be excluded from future deliveries"
\* (simulation.rs:212): nothing is delivered to a partitioned node.
PartitionedExcluded ==
  [][\A n \in partitioned : graph'[n] = graph[n]]_vars

\* "Each node can create, claim, and complete tasks entirely offline, then reconcile
\* its state with other nodes", and concurrent actions are "never silently dropped"
\* (README.md:20-22, 41-43): no step loses an action, wherever it was staged.
OfflineWorkIsKept ==
  [][\A i \in issued : i.event \in Everywhere => i.event \in Everywhere']_vars
=============================================================================
