----------------------------- MODULE Delivery -----------------------------
(***************************************************************************)
(* node_sim/src/simulation.rs in detail: queues of messages, deliver_all   *)
(* node by node and message by message, and deliver_all_shuffled, which    *)
(* permutes every queue with xorshift numbers first. It implements         *)
(* Simulation, where a delivery is one step and a queue is a set.          *)
(*                                                                         *)
(* The harness makes one call at a time: while a delivery runs, nothing    *)
(* else does. A message is the set of its events, and may be empty.        *)
(***************************************************************************)
EXTENDS Node, Rng

CONSTANTS RngSeeds,         \* the seeds a generator may be made from
          MaxMessages       \* bound: how many copies a behaviour may push

ASSUME DeliveryAssumption ==
  RngSeeds \subseteq Seed128 /\ MaxMessages \in Nat /\ IsFiniteSet(Node)

VARIABLES message_queues,   \* node -> the messages in flight to it
          partitioned,      \* the nodes marked as cut off
          messages_delivered,
          rng,              \* the generator that the caller passes in
          running,          \* the loop that runs: "none", "shuffle", "deliver"
          waiting,          \* the nodes that this loop has still to come to
          drawn,            \* swaps made in the queue being shuffled
          delivered,        \* deliver_all's local count
          sent              \* history: copies of messages pushed to queues

callVars == <<rng, running, waiting, drawn, delivered>>
deliveryVars == <<message_queues, partitioned, messages_delivered, callVars, sent>>
vars == <<nodeVars, deliveryVars>>

Message == SUBSET Event

\* Every variable has the shape the code declares, also in the middle of a delivery.
TypeOK == /\ NodeTypeOK
          /\ message_queues \in [Node -> Seq(Message)]
          /\ partitioned \in SUBSET Node
          /\ rng \in Word
          /\ running \in {"none", "shuffle", "deliver"}
          /\ waiting \in SUBSET Node
          /\ drawn \in Nat /\ delivered \in Nat /\ messages_delivered \in Nat
          /\ sent \in 0 .. MaxMessages

Init == /\ NodeInit
        /\ message_queues = [n \in Node |-> <<>>]
        /\ partitioned = {}
        /\ messages_delivered = 0
        /\ rng \in {New(AsU64(seed)) : seed \in RngSeeds}
        /\ running = "none" /\ waiting = {} /\ drawn = 0 /\ delivered = 0
        /\ sent = 0

Idle == running = "none" /\ UNCHANGED callVars

(* Staging and sending --------------------------------------------------- *)

StageEvent == /\ Idle
              /\ \E n \in Node, kind \in Kinds, t \in Task :
                   StageManual(n, kind, t) \/ StageAuto(n, kind, t)
              /\ UNCHANGED <<message_queues, partitioned, messages_delivered, sent>>

EmptyOutbox(s) == outbox' = [outbox EXCEPT ![s] = {}]

\* One copy of the sender's message at the end of every queue in `to`.
Send(s, to) ==
  /\ Idle
  /\ sent + Cardinality(to) =< MaxMessages
  /\ EmptyOutbox(s)
  /\ message_queues' = [n \in Node |-> IF n \in to THEN Append(message_queues[n], outbox[s])
                                       ELSE message_queues[n]]
  /\ sent' = sent + Cardinality(to)
  /\ UNCHANGED <<graph, inbox, next, issued, partitioned, messages_delivered>>

\* Mutant: the sender does not get its own message back.
BroadcastToOthers(s) == Send(s, Node \ {s})

Broadcast(s) == Send(s, Node)

SendWithDrops(s, drops) ==
  /\ s \notin partitioned
  /\ Send(s, {s} \union (Node \ (partitioned \union drops)))

DrainSilently(s) ==
  /\ Idle
  /\ s \in partitioned
  /\ EmptyOutbox(s)
  /\ UNCHANGED <<graph, inbox, next, issued, message_queues, partitioned, messages_delivered, sent>>

BroadcastWithFailures(s, drops) == SendWithDrops(s, drops) \/ DrainSilently(s)

\* Mutant: nodes are counted from 1.
PartitionFromOne(n) == /\ Idle
                       /\ partitioned' = partitioned \union {n + 1}
                       /\ UNCHANGED <<nodeVars, message_queues, messages_delivered, sent>>

Partition(n) == /\ Idle
                /\ partitioned' = partitioned \union {n}
                /\ UNCHANGED <<nodeVars, message_queues, messages_delivered, sent>>

Heal(n) == /\ Idle
           /\ partitioned' = partitioned \ {n}
           /\ UNCHANGED <<nodeVars, message_queues, messages_delivered, sent>>

\* The backlog push of the partition scenarios.
CatchUp(source, n) ==
  /\ Idle
  /\ inbox' = [inbox EXCEPT ![n] = @ \union graph[source]]
  /\ UNCHANGED <<graph, outbox, next, issued, message_queues, partitioned, messages_delivered, sent>>

(* Delivery -------------------------------------------------------------- *)

\* The loops go through the nodes by index, here the order of the NodeIds.
AtTurn(loop, n) == /\ running = loop
                   /\ n \in waiting
                   /\ \A m \in waiting : n =< m

\* The call of deliver_all.
BeginDelivery == /\ running = "none"
                 /\ running' = "deliver"
                 /\ waiting' = Node
                 /\ UNCHANGED <<nodeVars, message_queues, partitioned, messages_delivered,
                                rng, drawn, delivered, sent>>

\* Mutant: a message without events is not counted.
ReceiveCountingEvents(n) ==
  /\ AtTurn("deliver", n)
  /\ message_queues[n] # <<>>
  /\ inbox' = [inbox EXCEPT ![n] = @ \union Head(message_queues[n])]
  /\ message_queues' = [message_queues EXCEPT ![n] = Tail(@)]
  /\ delivered' = IF Head(message_queues[n]) = {} THEN delivered ELSE delivered + 1
  /\ UNCHANGED <<graph, outbox, next, issued, partitioned, messages_delivered,
                 rng, running, waiting, drawn, sent>>

\* One turn of the inner loop: receive_message of the next message in the queue.
Receive(n) ==
  /\ AtTurn("deliver", n)
  /\ message_queues[n] # <<>>
  /\ inbox' = [inbox EXCEPT ![n] = @ \union Head(message_queues[n])]
  /\ message_queues' = [message_queues EXCEPT ![n] = Tail(@)]
  /\ delivered' = delivered + 1
  /\ UNCHANGED <<graph, outbox, next, issued, partitioned, messages_delivered,
                 rng, running, waiting, drawn, sent>>

\* Mutant: the loop does not move on to the next node.
ProcessInboxAgain(n) ==
  /\ AtTurn("deliver", n)
  /\ message_queues[n] = <<>>
  /\ graph' = [graph EXCEPT ![n] = InsertAll(@, inbox[n])]
  /\ inbox' = [inbox EXCEPT ![n] = {}]
  /\ UNCHANGED <<outbox, next, issued, message_queues, partitioned, messages_delivered,
                 rng, running, waiting, drawn, delivered, sent>>

\* process_inbox once the node's queue is empty, and on to the next node.
ProcessInbox(n) ==
  /\ AtTurn("deliver", n)
  /\ message_queues[n] = <<>>
  /\ graph' = [graph EXCEPT ![n] = InsertAll(@, inbox[n])]
  /\ inbox' = [inbox EXCEPT ![n] = {}]
  /\ waiting' = waiting \ {n}
  /\ UNCHANGED <<outbox, next, issued, message_queues, partitioned, messages_delivered,
                 rng, running, drawn, delivered, sent>>

EndDelivery == /\ running = "deliver"
               /\ waiting = {}
               /\ running' = "none"
               /\ messages_delivered' = messages_delivered + delivered
               /\ delivered' = 0
               /\ UNCHANGED <<nodeVars, message_queues, partitioned, rng, waiting, drawn, sent>>

(* Shuffled delivery ----------------------------------------------------- *)

\* The call of deliver_all_shuffled.
BeginShuffle == /\ running = "none"
                /\ running' = "shuffle"
                /\ waiting' = Node
                /\ UNCHANGED <<nodeVars, message_queues, partitioned, messages_delivered,
                               rng, drawn, delivered, sent>>

\* Where the Fisher-Yates loop over n's queue is: i runs from len - 1 down to 1.
Position(n) == Len(message_queues[n]) - 1 - drawn

\* One turn of that loop. A number outside the queue makes `swap` panic: no step.
ShuffleStep(n) ==
  LET i == Position(n)
      j == NextRange(NextU64(rng), i + 1)
  IN  /\ AtTurn("shuffle", n)
      /\ i >= 1
      /\ j \in 0 .. Len(message_queues[n]) - 1
      /\ rng' = NextU64(rng)
      /\ message_queues' = [message_queues EXCEPT ![n] = Swap(@, i, j)]
      /\ drawn' = drawn + 1
      /\ UNCHANGED <<nodeVars, partitioned, messages_delivered, running, waiting, delivered, sent>>

NextQueue(n) == /\ AtTurn("shuffle", n)
                /\ Position(n) < 1
                /\ waiting' = waiting \ {n}
                /\ drawn' = 0
                /\ UNCHANGED <<nodeVars, message_queues, partitioned, messages_delivered,
                               rng, running, delivered, sent>>

\* All queues are shuffled: deliver_all.
EndShuffle == /\ running = "shuffle"
              /\ waiting = {}
              /\ running' = "deliver"
              /\ waiting' = Node
              /\ UNCHANGED <<nodeVars, message_queues, partitioned, messages_delivered,
                             rng, drawn, delivered, sent>>

(* Specification --------------------------------------------------------- *)

\* The steps of a running delivery.
DeliveryStep == \/ \E n \in Node : \/ Receive(n) \/ ProcessInbox(n)
                                   \/ ShuffleStep(n) \/ NextQueue(n)
                \/ EndShuffle
                \/ EndDelivery

\* The calls that the harness offers.
Call == \/ StageEvent
        \/ \E s \in Node : \/ Broadcast(s)
                           \/ \E drops \in SUBSET Node : BroadcastWithFailures(s, drops)
        \/ \E n \in Node : Partition(n) \/ Heal(n)
        \/ \E source, n \in Node : CatchUp(source, n)
        \/ BeginDelivery
        \/ BeginShuffle

Next == Call \/ DeliveryStep

\* A call that has begun runs on: it is a sequential loop.
Spec == Init /\ [][Next]_vars /\ WF_vars(DeliveryStep)

(* Properties ------------------------------------------------------------ *)

\* xorshift is stuck at zero for ever once it gets there ("xorshift is undefined
\* at state 0"): no seed leads there, also one whose low 64 bits are zero, and no
\* draw does.
RngNeverZero == rng # Zero

\* The places in the queues of the nodes of S, and so the copies that wait there.
PlacesOf(S) == UNION {{n} \X DOMAIN message_queues[n] : n \in S}

InFlight == Cardinality(PlacesOf(Node))

\* "Cumulative count of receive_message calls" (simulation.rs:57): each copy that
\* was pushed is in a queue or has been counted, once, wherever a delivery is.
Accounted == messages_delivered + delivered + InFlight = sent

\* The events that the messages of a queue carry.
Carried(q) == UNION {q[k] : k \in DOMAIN q}

\* `swap` never panics: the number that Fisher-Yates draws for place i of a queue
\* is one of 0 .. i, for every queue and every state of the generator.
SwapInBounds ==
  \A n \in Node :
    AtTurn("shuffle", n) /\ Position(n) >= 1
      => NextRange(NextU64(rng), Position(n) + 1) \in 0 .. Position(n)

\* A delivery comes to its end, whatever the queues and the random numbers are.
DeliveryEnds == running # "none" ~> running = "none"

(* Refinement: seen from outside, a delivery happens when it begins. ------ *)

Delivering == running = "deliver"

graphSeen == [n \in Node |-> IF Delivering
                             THEN InsertAll(graph[n], inbox[n] \union Carried(message_queues[n]))
                             ELSE graph[n]]
inboxSeen == [n \in Node |-> IF Delivering THEN {} ELSE inbox[n]]
queuesSeen == [n \in Node |-> IF Delivering THEN {} ELSE Carried(message_queues[n])]

Atomic == INSTANCE Simulation WITH graph <- graphSeen,
                                   inbox <- inboxSeen,
                                   message_queues <- queuesSeen

\* The loops implement Simulation's DeliverAll, with or without the shuffle: no
\* message is lost, repeated or given to another node on the way. So what holds
\* of Simulation holds here.
Refinement == Atomic!Spec
=============================================================================
