--------------------------- MODULE DeliveryProofs ---------------------------
(***************************************************************************)
(* Proofs about Delivery for every finite set of nodes, any tasks, seeds   *)
(* and bounds: the loops of deliver_all and deliver_all_shuffled implement *)
(* the atomic delivery of Simulation; each turn brings them nearer to      *)
(* their end, counts its messages once and swaps within its queue; ids     *)
(* stay unique and the generator never reaches zero.                       *)
(***************************************************************************)
EXTENDS Delivery, RngProofs, HistoryProofs, FiniteSetTheorems

\* A delivery leaves nothing behind at the nodes it has passed.
PassedAreDone ==
  running = "deliver" =>
    \A n \in Node \ waiting : message_queues[n] = <<>> /\ inbox[n] = {}

Inv == TypeOK /\ RngNeverZero /\ PassedAreDone

-----------------------------------------------------------------------------
(* Queues ---------------------------------------------------------------- *)

\* A message pushed to a queue adds its events to what the queue carries.
LEMMA CarriedByAppended ==
  ASSUME NEW q \in Seq(Message), NEW m \in Message
  PROVE  Carried(Append(q, m)) = Carried(q) \union m
<1> DEFINE r == Append(q, m)
<1>1. /\ Len(q) \in Nat /\ DOMAIN q = 1 .. Len(q)
      /\ Len(r) = Len(q) + 1 /\ DOMAIN r = 1 .. Len(q) + 1
      /\ r[Len(q) + 1] = m /\ \A k \in 1 .. Len(q) : r[k] = q[k]
  OBVIOUS
<1> HIDE DEF r
<1>2. Carried(r) \subseteq Carried(q) \union m
  <2> SUFFICES ASSUME NEW k \in DOMAIN r PROVE r[k] \subseteq Carried(q) \union m
    BY DEF Carried
  <2> QED
    BY <1>1 DEF Carried
<1>3. m \subseteq Carried(r)
  BY <1>1 DEF Carried
<1>4. Carried(q) \subseteq Carried(r)
  <2> SUFFICES ASSUME NEW k \in DOMAIN q PROVE q[k] \subseteq Carried(r)
    BY DEF Carried
  <2> QED
    BY <1>1 DEF Carried
<1> QED
  BY <1>2, <1>3, <1>4 DEF r

\* What a queue carries is in its first message or in the others.
LEMMA CarriedByHeadAndTail ==
  ASSUME NEW q \in Seq(Message), q # <<>>
  PROVE  Carried(q) = Head(q) \union Carried(Tail(q))
<1> DEFINE r == Tail(q)
<1>1. /\ Len(q) \in Nat \ {0} /\ DOMAIN q = 1 .. Len(q)
      /\ Head(q) = q[1] /\ DOMAIN r = 1 .. Len(q) - 1
      /\ \A k \in 1 .. Len(q) - 1 : r[k] = q[k + 1]
  OBVIOUS
<1> HIDE DEF r
<1>2. Carried(q) \subseteq q[1] \union Carried(r)
  <2> SUFFICES ASSUME NEW k \in DOMAIN q PROVE q[k] \subseteq q[1] \union Carried(r)
    BY DEF Carried
  <2>1. CASE k = 1
    BY <2>1
  <2>2. CASE k # 1
    <3>1. k - 1 \in DOMAIN r /\ r[k - 1] = q[k]
      BY <1>1, <2>2
    <3> QED
      BY <3>1 DEF Carried
  <2> QED
    BY <2>1, <2>2
<1>3. q[1] \subseteq Carried(q)
  BY <1>1 DEF Carried
<1>4. Carried(r) \subseteq Carried(q)
  <2> SUFFICES ASSUME NEW k \in DOMAIN r PROVE r[k] \subseteq Carried(q)
    BY DEF Carried
  <2>1. k + 1 \in DOMAIN q /\ r[k] = q[k + 1]
    BY <1>1
  <2> QED
    BY <2>1 DEF Carried
<1> QED
  BY <1>1, <1>2, <1>3, <1>4 DEF r

\* An empty queue carries nothing.
LEMMA CarriedByNone == Carried(<<>>) = {}
BY DEF Carried

\* A swap permutes a queue: it carries what it carried.
LEMMA SwapKeepsCarried ==
  ASSUME NEW q \in Seq(Message), NEW i \in Nat, NEW j \in Nat, i < Len(q), j < Len(q)
  PROVE  Swap(q, i, j) \in Seq(Message) /\ Carried(Swap(q, i, j)) = Carried(q)
<1> DEFINE r == Swap(q, i, j)
<1>1. /\ Len(q) \in Nat /\ DOMAIN q = 1 .. Len(q) /\ q \in [1 .. Len(q) -> Message]
      /\ i + 1 \in 1 .. Len(q) /\ j + 1 \in 1 .. Len(q)
  OBVIOUS
<1>2. r \in [1 .. Len(q) -> Message]
  BY <1>1 DEF Swap
<1>3. r[j + 1] = q[i + 1] /\ r[i + 1] = q[j + 1]
  BY <1>1 DEF Swap
<1>4. \A k \in 1 .. Len(q) : k # i + 1 /\ k # j + 1 => r[k] = q[k]
  BY <1>1 DEF Swap
<1> HIDE DEF r
<1>5. r \in Seq(Message)
  BY <1>1, <1>2, SMT
<1>6. DOMAIN r = DOMAIN q
  BY <1>1, <1>2
<1>7. \A k \in DOMAIN q : \E l \in DOMAIN q : r[l] = q[k]
  BY <1>1, <1>3, <1>4
<1>8. \A k \in DOMAIN q : \E l \in DOMAIN q : q[l] = r[k]
  BY <1>1, <1>3, <1>4
<1>9. {r[k] : k \in DOMAIN r} = {q[k] : k \in DOMAIN q}
  BY <1>6, <1>7, <1>8
<1>10. Carried(r) = Carried(q)
  BY <1>9 DEF Carried
<1> QED
  BY <1>5, <1>10 DEF r

-----------------------------------------------------------------------------
(* Types ----------------------------------------------------------------- *)

\* The frontier consists of event ids.
LEMMA FrontierTyped ==
  ASSUME NodeTypeOK, NEW n \in Node, NEW t
  PROVE  FrontierFor(n, t) \subseteq EventId
<1>1. Known(n) \subseteq Event
  BY DEF NodeTypeOK, Known, InsertAll
<1>2. \A e \in Event : e.id \in EventId
  BY DEF Event
<1> QED
  BY <1>1, <1>2 DEF FrontierFor, ExtractTaskSubgraph

\* Staging keeps the types of the nodes.
LEMMA StageEventTyped == ASSUME NodeTypeOK, StageEvent PROVE NodeTypeOK'
<1>1. PICK n \in Node, kind \in Kinds, t \in Task :
         StageManual(n, kind, t) \/ StageAuto(n, kind, t)
  BY DEF StageEvent
<1>2. \E parents \in SUBSET EventId : Stage(n, kind, t, parents)
  BY <1>1, HistoryTyped, FrontierTyped DEF StageManual, StageAuto
<1> QED
  BY <1>2, StageTyped

\* What Send does for whichever queues it pushes to.
LEMMA SendTyped ==
  ASSUME Inv, NEW s \in Node, NEW to \in SUBSET Node, Send(s, to)
  PROVE  Inv'
<1>1. Cardinality(to) \in Nat
  BY DeliveryAssumption, FS_Subset, FS_CardinalityType
<1>2. outbox[s] \in Message
  BY DEF Inv, TypeOK, NodeTypeOK, Message
<1>3. message_queues' \in [Node -> Seq(Message)]
  <2>1. \A n \in Node : Append(message_queues[n], outbox[s]) \in Seq(Message)
    BY <1>2 DEF Inv, TypeOK
  <2> QED
    BY <2>1 DEF Inv, TypeOK, Send
<1>4. sent' \in 0 .. MaxMessages
  BY <1>1, DeliveryAssumption DEF Inv, TypeOK, Send
<1>5. NodeTypeOK'
  BY DEF Inv, TypeOK, NodeTypeOK, Send, EmptyOutbox
<1> QED
  BY <1>3, <1>4, <1>5 DEF Inv, TypeOK, RngNeverZero, PassedAreDone, Send, Idle, callVars

\* No call of the harness breaks the invariant.
LEMMA CallKeepsInv == ASSUME Inv, Call PROVE Inv'
<1> USE DEF Inv, TypeOK, RngNeverZero, PassedAreDone
<1>1. CASE StageEvent
  BY <1>1, StageEventTyped DEF StageEvent, Idle, callVars
<1>2. ASSUME NEW s \in Node, Broadcast(s) PROVE Inv'
  BY <1>2, SendTyped DEF Broadcast
<1>3. ASSUME NEW s \in Node, NEW drops \in SUBSET Node, BroadcastWithFailures(s, drops)
      PROVE  Inv'
  <2>1. CASE SendWithDrops(s, drops)
    BY <2>1, SendTyped DEF SendWithDrops
  <2>2. CASE DrainSilently(s)
    BY <2>2 DEF DrainSilently, EmptyOutbox, Idle, callVars, NodeTypeOK
  <2> QED
    BY <1>3, <2>1, <2>2 DEF BroadcastWithFailures
<1>4. ASSUME NEW n \in Node, Partition(n) \/ Heal(n) PROVE Inv'
  BY <1>4 DEF Partition, Heal, Idle, callVars, nodeVars, NodeTypeOK
<1>5. ASSUME NEW source \in Node, NEW n \in Node, CatchUp(source, n) PROVE Inv'
  BY <1>5 DEF CatchUp, Idle, callVars, NodeTypeOK
<1>6. CASE BeginDelivery
  BY <1>6 DEF BeginDelivery, nodeVars, NodeTypeOK
<1>7. CASE BeginShuffle
  BY <1>7 DEF BeginShuffle, nodeVars, NodeTypeOK
<1> QED
  BY <1>1, <1>2, <1>3, <1>4, <1>5, <1>6, <1>7 DEF Call

\* The two positions that a turn of the shuffle swaps lie in the queue.
LEMMA ShuffleSwaps ==
  ASSUME NEW n \in Node, Inv, ShuffleStep(n)
  PROVE  \E i, j \in Nat : /\ i < Len(message_queues[n]) /\ j < Len(message_queues[n])
                          /\ message_queues' = [message_queues EXCEPT ![n] = Swap(@, i, j)]
<1> DEFINE i == Position(n)
           j == NextRange(NextU64(rng), i + 1)
<1>1. Len(message_queues[n]) \in Nat /\ drawn \in Nat
  BY DEF Inv, TypeOK
<1>2. i >= 1 /\ j \in 0 .. Len(message_queues[n]) - 1
  BY DEF ShuffleStep
<1>3. i \in Nat /\ i < Len(message_queues[n])
  BY <1>1, <1>2 DEF Position
<1>4. message_queues' = [message_queues EXCEPT ![n] = Swap(@, i, j)]
  BY DEF ShuffleStep
<1> HIDE DEF i, j
<1>5. j \in Nat /\ j < Len(message_queues[n])
  BY <1>1, <1>2
<1> USE <1>3, <1>5
<1> WITNESS i \in Nat, j \in Nat
<1> QED
  BY <1>4

\* No turn of a running delivery breaks the invariant.
LEMMA StepKeepsInv == ASSUME Inv, DeliveryStep PROVE Inv'
<1> USE DEF Inv, TypeOK, RngNeverZero, PassedAreDone
<1>1. ASSUME NEW n \in Node, Receive(n) PROVE Inv'
  <2>1. Tail(message_queues[n]) \in Seq(Message) /\ Head(message_queues[n]) \in SUBSET Event
    BY <1>1 DEF Receive, Message
  <2> QED
    BY <1>1, <2>1 DEF Receive, AtTurn, NodeTypeOK
<1>2. ASSUME NEW n \in Node, ProcessInbox(n) PROVE Inv'
  <2>1. InsertAll(graph[n], inbox[n]) \in SUBSET Event
    BY DEF InsertAll, NodeTypeOK
  <2> QED
    BY <1>2, <2>1 DEF ProcessInbox, AtTurn, NodeTypeOK
<1>3. ASSUME NEW n \in Node, ShuffleStep(n) PROVE Inv'
  <2>1. message_queues' \in [Node -> Seq(Message)]
    <3>1. PICK i, j \in Nat :
             /\ i < Len(message_queues[n]) /\ j < Len(message_queues[n])
             /\ message_queues' = [message_queues EXCEPT ![n] = Swap(@, i, j)]
      BY <1>3, ShuffleSwaps
    <3>2. Swap(message_queues[n], i, j) \in Seq(Message)
      BY <3>1, SwapKeepsCarried
    <3> QED
      BY <3>1, <3>2
  <2>2. rng' \in Word /\ rng' # Zero
    BY <1>3, DrawIsNotZero DEF ShuffleStep
  <2> QED
    BY <1>3, <2>1, <2>2 DEF ShuffleStep, AtTurn, nodeVars, NodeTypeOK
<1>4. ASSUME NEW n \in Node, NextQueue(n) PROVE Inv'
  BY <1>4 DEF NextQueue, AtTurn, nodeVars, NodeTypeOK
<1>5. CASE EndShuffle
  BY <1>5 DEF EndShuffle, nodeVars, NodeTypeOK
<1>6. CASE EndDelivery
  BY <1>6 DEF EndDelivery, nodeVars, NodeTypeOK
<1> QED
  BY <1>1, <1>2, <1>3, <1>4, <1>5, <1>6 DEF DeliveryStep

\* Nor does a step that changes nothing.
LEMMA StutterKeepsInv == ASSUME Inv, UNCHANGED vars PROVE Inv'
BY DEF Inv, TypeOK, RngNeverZero, PassedAreDone, NodeTypeOK, vars, nodeVars, deliveryVars, callVars

\* A new simulation satisfies the invariant.
LEMMA InitEstablishesInv == ASSUME Init PROVE Inv
<1>1. rng \in Word /\ rng # Zero
  BY DeliveryAssumption, SeedIsNotZero DEF Init
<1>2. \A n \in Node : message_queues[n] = <<>>
  BY DEF Init
<1>3. message_queues \in [Node -> Seq(Message)]
  BY DEF Init
<1> QED
  BY <1>1, <1>3, CounterAssumption, DeliveryAssumption
  DEF Init, NodeInit, Inv, TypeOK, NodeTypeOK, RngNeverZero, PassedAreDone

\* The types, a non-zero generator, and that deliver_all leaves a node it has
\* passed with an empty queue and inbox, hold throughout.
THEOREM Invariance == Spec => []Inv
<1>1. Init => Inv
  BY InitEstablishesInv
<1>2. Inv /\ [Next]_vars => Inv'
  BY CallKeepsInv, StepKeepsInv, StutterKeepsInv DEF Next
<1> QED
  BY <1>1, <1>2, PTL DEF Spec

\* The types of the detailed system, in the middle of a delivery too.
THEOREM TypeCorrect == Spec => []TypeOK
BY Invariance, PTL DEF Inv

\* Whatever seed it starts from, the generator never gets stuck at zero.
THEOREM GeneratorNeverZero == Spec => []RngNeverZero
BY Invariance, PTL DEF Inv

-----------------------------------------------------------------------------
(* Events ---------------------------------------------------------------- *)

\* Graphs, outboxes, inboxes and messages hold staged events only.
HeldIssued == \A n \in Node : /\ graph[n] \subseteq History
                              /\ outbox[n] \subseteq History
                              /\ inbox[n] \subseteq History
                              /\ Carried(message_queues[n]) \subseteq History

Held == Inv /\ HistoryInv /\ HeldIssued

\* A step that stages nothing and only moves events about.
Moves == \A n \in Node :
           /\ graph'[n] \subseteq graph[n] \union inbox[n]
           /\ outbox'[n] \subseteq outbox[n]
           /\ inbox'[n] \subseteq inbox[n] \union Carried(message_queues[n]) \union History
           /\ Carried(message_queues'[n]) \subseteq Carried(message_queues[n]) \union History

\* Moving events about leaves the history as it is.
LEMMA MovesKeepHeld ==
  ASSUME HistoryInv, HeldIssued, UNCHANGED <<next, issued>>, Moves
  PROVE  HistoryInv' /\ HeldIssued'
<1>1. History' = History
  BY DEF History
<1>2. HeldIssued'
  BY <1>1 DEF HeldIssued, Moves
<1> QED
  BY <1>2, HistoryKept

\* Staging extends the history, by the event that it puts into an outbox.
LEMMA StagingKeepsHeld ==
  ASSUME Inv, HistoryInv, HeldIssued, StageEvent PROVE HistoryInv' /\ HeldIssued'
<1>1. PICK n \in Node, kind \in Kinds, t \in Task :
         StageManual(n, kind, t) \/ StageAuto(n, kind, t)
  BY DEF StageEvent
<1>2. PICK parents \in SUBSET Ids(History) : Stage(n, kind, t, parents)
  BY <1>1, FrontierIssued DEF StageManual, StageAuto, HeldIssued
<1>3. NodeTypeOK /\ UNCHANGED message_queues
  BY DEF Inv, TypeOK, StageEvent
<1>4. HistoryInv'
  BY <1>2, <1>3, StageKeepsHistory
<1>5. HeldIssued'
  BY <1>2, <1>3, StageHolds DEF HeldIssued
<1> QED
  BY <1>4, <1>5

\* A broadcast moves events from an outbox to the queues.
LEMMA SendMoves ==
  ASSUME Inv, HeldIssued, NEW s \in Node, NEW to \in SUBSET Node, Send(s, to)
  PROVE  Moves
<1>1. \A n \in Node : outbox'[n] \subseteq outbox[n] /\ UNCHANGED <<graph, inbox>>
  BY DEF Send, EmptyOutbox, Inv, TypeOK, NodeTypeOK
<1>2. ASSUME NEW n \in Node
      PROVE  Carried(message_queues'[n]) \subseteq Carried(message_queues[n]) \union outbox[s]
  <2>1. message_queues[n] \in Seq(Message) /\ outbox[s] \in Message
    BY DEF Inv, TypeOK, NodeTypeOK, Message
  <2>2. Carried(Append(message_queues[n], outbox[s])) = Carried(message_queues[n]) \union outbox[s]
    BY <2>1, CarriedByAppended
  <2> QED
    BY <2>2 DEF Send
<1> QED
  BY <1>1, <1>2 DEF Moves, HeldIssued

\* Every call but staging only moves events about.
LEMMA CallMoves ==
  ASSUME Inv, HeldIssued, Call, ~StageEvent PROVE Moves /\ UNCHANGED <<next, issued>>
<1>1. ASSUME NEW s \in Node, Broadcast(s) PROVE Moves /\ UNCHANGED <<next, issued>>
  BY <1>1, SendMoves DEF Broadcast, Send
<1>2. ASSUME NEW s \in Node, NEW drops \in SUBSET Node, SendWithDrops(s, drops)
      PROVE  Moves /\ UNCHANGED <<next, issued>>
  BY <1>2, SendMoves DEF SendWithDrops, Send
<1>3. ASSUME NEW s \in Node, DrainSilently(s) PROVE Moves /\ UNCHANGED <<next, issued>>
  BY <1>3 DEF DrainSilently, EmptyOutbox, Moves, Inv, TypeOK, NodeTypeOK
<1>4. ASSUME NEW n \in Node, Partition(n) \/ Heal(n) PROVE Moves /\ UNCHANGED <<next, issued>>
  BY <1>4 DEF Partition, Heal, nodeVars, Moves
<1>5. ASSUME NEW source \in Node, NEW n \in Node, CatchUp(source, n)
      PROVE  Moves /\ UNCHANGED <<next, issued>>
  BY <1>5 DEF CatchUp, Moves, HeldIssued, Inv, TypeOK, NodeTypeOK
<1>6. CASE BeginDelivery \/ BeginShuffle
  BY <1>6 DEF BeginDelivery, BeginShuffle, nodeVars, Moves
<1> QED
  BY <1>1, <1>2, <1>3, <1>4, <1>5, <1>6 DEF Call, BroadcastWithFailures

\* Every turn of a delivery only moves events about.
LEMMA StepMoves ==
  ASSUME Inv, HeldIssued, DeliveryStep PROVE Moves /\ UNCHANGED <<next, issued>>
<1>1. ASSUME NEW n \in Node, Receive(n) PROVE Moves /\ UNCHANGED <<next, issued>>
  <2>1. Carried(message_queues[n])
          = Head(message_queues[n]) \union Carried(Tail(message_queues[n]))
    BY <1>1, CarriedByHeadAndTail DEF Inv, TypeOK, Receive
  <2> QED
    BY <1>1, <2>1 DEF Receive, Moves, Inv, TypeOK, NodeTypeOK
<1>2. ASSUME NEW n \in Node, ProcessInbox(n) PROVE Moves /\ UNCHANGED <<next, issued>>
  <2>1. InsertAll(graph[n], inbox[n]) \subseteq graph[n] \union inbox[n]
    BY DEF InsertAll
  <2> QED
    BY <1>2, <2>1 DEF ProcessInbox, Moves, Inv, TypeOK, NodeTypeOK
<1>3. ASSUME NEW n \in Node, ShuffleStep(n) PROVE Moves /\ UNCHANGED <<next, issued>>
  <2>1. PICK i, j \in Nat :
           /\ i < Len(message_queues[n]) /\ j < Len(message_queues[n])
           /\ message_queues' = [message_queues EXCEPT ![n] = Swap(@, i, j)]
    BY <1>3, ShuffleSwaps
  <2>2. Carried(Swap(message_queues[n], i, j)) = Carried(message_queues[n])
    BY <2>1, SwapKeepsCarried DEF Inv, TypeOK
  <2>3. \A m \in Node : Carried(message_queues'[m]) = Carried(message_queues[m])
    BY <2>1, <2>2 DEF Inv, TypeOK
  <2> QED
    BY <1>3, <2>3 DEF ShuffleStep, nodeVars, Moves
<1>4. ASSUME NEW n \in Node, NextQueue(n) PROVE Moves /\ UNCHANGED <<next, issued>>
  BY <1>4 DEF NextQueue, nodeVars, Moves
<1>5. CASE EndShuffle \/ EndDelivery
  BY <1>5 DEF EndShuffle, EndDelivery, nodeVars, Moves
<1> QED
  BY <1>1, <1>2, <1>3, <1>4, <1>5 DEF DeliveryStep

\* A new simulation holds nothing.
LEMMA InitEstablishesHeld == ASSUME Init PROVE Held
<1>1. issued = {} /\ \A n \in Node : /\ graph[n] = {} /\ outbox[n] = {} /\ inbox[n] = {}
                                    /\ message_queues[n] = <<>>
  BY DEF Init, NodeInit
<1>2. HistoryInv /\ HeldIssued
  BY <1>1, CarriedByNone DEF HistoryInv, IdsDrawn, IdsOnce, PastOlder, PastClosed, PastLeast,
                             HeldIssued
<1> QED
  BY <1>2, InitEstablishesInv DEF Held

\* Everything held anywhere has been issued, in every reachable state.
LEMMA HeldThroughout == Spec => []Held
<1>1. Init => Held
  BY InitEstablishesHeld
<1>2. Inv /\ Inv' /\ HistoryInv /\ HeldIssued /\ [Next]_vars => Held'
  <2> SUFFICES ASSUME Inv, Inv', HistoryInv, HeldIssued, [Next]_vars PROVE HistoryInv' /\ HeldIssued'
    BY DEF Held
  <2>1. CASE UNCHANGED vars
    BY <2>1, MovesKeepHeld DEF vars, nodeVars, deliveryVars, Moves
  <2> QED
    BY <2>1, StagingKeepsHeld, CallMoves, StepMoves, MovesKeepHeld DEF Next
<1>3. Held => HistoryInv /\ HeldIssued
  BY DEF Held
<1> QED
  BY <1>1, <1>2, <1>3, Invariance, PTL DEF Spec

-----------------------------------------------------------------------------
(* Counting messages ----------------------------------------------------- *)

\* A place is a node and a position in its queue.
LEMMA PlacesAre ==
  ASSUME NEW S, NEW x
  PROVE  x \in PlacesOf(S) <=> \E n \in S : \E k \in DOMAIN message_queues[n] : x = <<n, k>>
BY DEF PlacesOf

\* The copies in flight are finitely many.
LEMMA PlacesFinite ==
  ASSUME Inv, NEW S \in SUBSET Node
  PROVE  IsFiniteSet(PlacesOf(S)) /\ Cardinality(PlacesOf(S)) \in Nat
<1> DEFINE Row == [n \in S |-> {n} \X DOMAIN message_queues[n]]
           Rows == {{n} \X DOMAIN message_queues[n] : n \in S}
<1>1. ASSUME NEW n \in S PROVE IsFiniteSet({n} \X DOMAIN message_queues[n])
  <2>1. DOMAIN message_queues[n] = 1 .. Len(message_queues[n]) /\ Len(message_queues[n]) \in Nat
    BY DEF Inv, TypeOK
  <2>2. IsFiniteSet({n})
    BY FS_Singleton
  <2>3. IsFiniteSet(1 .. Len(message_queues[n]))
    BY <2>1, FS_Interval
  <2> QED
    BY <2>1, <2>2, <2>3, FS_Product
<1>2. IsFiniteSet(S)
  BY DeliveryAssumption, FS_Subset
<1>3. Row \in Surjection(S, Rows)
  BY Zenon DEF Surjection
<1>4. IsFiniteSet(Rows)
  BY <1>2, <1>3, FS_Surjection
<1>5. IsFiniteSet(UNION Rows)
  BY <1>1, <1>4, FS_UNION
<1> QED
  BY <1>5, FS_CardinalityType DEF PlacesOf

\* One copy more waits in each queue that a message is pushed to.
LEMMA SendFills ==
  ASSUME Inv, Inv', NEW s \in Node, NEW to \in SUBSET Node, Send(s, to)
  PROVE  InFlight' = InFlight + Cardinality(to)
<1> DEFINE Last(n) == <<n, Len(message_queues[n]) + 1>>
           new == {Last(n) : n \in to}
           push == [n \in to |-> Last(n)]
           old == PlacesOf(Node)
<1>1. \A n \in Node : /\ Len(message_queues[n]) \in Nat
                      /\ DOMAIN message_queues[n] = 1 .. Len(message_queues[n])
                      /\ DOMAIN message_queues'[n] = IF n \in to THEN 1 .. Len(message_queues[n]) + 1
                                                     ELSE 1 .. Len(message_queues[n])
  BY DEF Inv, TypeOK, Send, NodeTypeOK, Message
<1>2. PlacesOf(Node)' = old \union new
  <2>1. ASSUME NEW x PROVE x \in PlacesOf(Node)' <=> x \in old \union new
    <3>1. x \in PlacesOf(Node)' <=> \E n \in Node : \E k \in DOMAIN message_queues'[n] : x = <<n, k>>
      BY DEF PlacesOf
    <3>2. ASSUME NEW n \in Node
          PROVE  (\E k \in DOMAIN message_queues'[n] : x = <<n, k>>)
                   <=> \/ \E k \in DOMAIN message_queues[n] : x = <<n, k>>
                       \/ n \in to /\ x = Last(n)
      BY <1>1
    <3> QED
      BY <3>1, <3>2, PlacesAre
  <2> QED
    BY <2>1
<1>3. old \intersect new = {}
  <2> SUFFICES ASSUME NEW n \in to, Last(n) \in old PROVE FALSE
    OBVIOUS
  <2>1. PICK m \in Node : \E k \in DOMAIN message_queues[m] : Last(n) = <<m, k>>
    BY PlacesAre
  <2>2. m = n /\ Len(message_queues[n]) + 1 \in DOMAIN message_queues[n]
    BY <2>1
  <2> QED
    BY <1>1, <2>2
<1>4. IsFiniteSet(to) /\ Cardinality(to) \in Nat
  BY DeliveryAssumption, FS_Subset, FS_CardinalityType
<1>5. IsFiniteSet(new) /\ Cardinality(new) = Cardinality(to)
  <2>1. push \in Bijection(to, new)
    <3>1. \A m, n \in to : Last(m) = Last(n) => m = n
      OBVIOUS
    <3> HIDE DEF Last
    <3>2. push \in [to -> new] /\ \A n \in to : push[n] = Last(n)
      OBVIOUS
    <3> HIDE DEF push
    <3> QED
      BY <3>1, <3>2 DEF Bijection, Injection, IsInjective, Surjection
  <2>2. ExistsBijection(to, new)
    BY <2>1 DEF ExistsBijection
  <2> QED
    BY <1>4, <2>2, FS_Bijection
<1>6. IsFiniteSet(old) /\ Cardinality(old) \in Nat
  BY PlacesFinite
<1> HIDE DEF old, new
<1>7. Cardinality(old \union new) = Cardinality(old) + Cardinality(new) - Cardinality({})
  BY <1>3, <1>5, <1>6, FS_Union
<1> QED
  BY <1>2, <1>4, <1>5, <1>6, <1>7, FS_EmptySet DEF InFlight, old

\* The last place of a queue is free when its head has been received.
LEMMA ReceiveEmpties ==
  ASSUME Inv, NEW n \in Node, Receive(n)
  PROVE  InFlight \in Nat /\ InFlight' = InFlight - 1
<1> DEFINE last == <<n, Len(message_queues[n])>>
<1>1. /\ Len(message_queues[n]) \in Nat \ {0}
      /\ DOMAIN message_queues[n] = 1 .. Len(message_queues[n])
      /\ message_queues' = [message_queues EXCEPT ![n] = Tail(@)]
      /\ DOMAIN Tail(message_queues[n]) = 1 .. Len(message_queues[n]) - 1
  BY DEF Receive, Inv, TypeOK
<1>2. \A m \in Node : DOMAIN message_queues'[m] = IF m = n THEN 1 .. Len(message_queues[n]) - 1
                                                  ELSE DOMAIN message_queues[m]
  BY <1>1 DEF Inv, TypeOK
<1>3. PlacesOf(Node)' = PlacesOf(Node) \ {last}
  <2>1. ASSUME NEW x PROVE x \in PlacesOf(Node)' <=> x \in PlacesOf(Node) \ {last}
    <3>1. x \in PlacesOf(Node)' <=> \E m \in Node : \E k \in DOMAIN message_queues'[m] : x = <<m, k>>
      BY DEF PlacesOf
    <3>2. ASSUME NEW m \in Node
          PROVE  (\E k \in DOMAIN message_queues'[m] : x = <<m, k>>)
                   <=> (\E k \in DOMAIN message_queues[m] : x = <<m, k>>) /\ x # last
      BY <1>1, <1>2
    <3> QED
      BY <3>1, <3>2, PlacesAre
  <2> QED
    BY <2>1
<1>4. last \in PlacesOf(Node)
  BY <1>1, PlacesAre
<1> HIDE DEF last
<1> QED
  BY <1>3, <1>4, PlacesFinite, FS_RemoveElement DEF InFlight

\* A step that leaves the length of every queue alone changes no count of places.
LEMMA PlacesKept ==
  ASSUME Inv, \A n \in Node : DOMAIN message_queues'[n] = DOMAIN message_queues[n],
         NEW S \in SUBSET Node
  PROVE  PlacesOf(S)' = PlacesOf(S)
BY DEF PlacesOf

\* A turn of the shuffle leaves every queue as long as it was.
LEMMA ShuffleKeepsPlaces ==
  ASSUME Inv, NEW n \in Node, ShuffleStep(n)
  PROVE  \A m \in Node : DOMAIN message_queues'[m] = DOMAIN message_queues[m]
<1>1. PICK i, j \in Nat : message_queues' = [message_queues EXCEPT ![n] = Swap(@, i, j)]
  BY ShuffleSwaps
<1>2. DOMAIN Swap(message_queues[n], i, j) = DOMAIN message_queues[n]
  BY DEF Swap
<1> QED
  BY <1>1, <1>2 DEF Inv, TypeOK

\* Steps that push or receive nothing change no count.
LEMMA CountsKept ==
  ASSUME Inv, Accounted, UNCHANGED <<messages_delivered, delivered, sent>>,
         \A n \in Node : DOMAIN message_queues'[n] = DOMAIN message_queues[n]
  PROVE  Accounted'
<1>1. PlacesOf(Node)' = PlacesOf(Node)
  BY PlacesKept
<1> QED
  BY <1>1 DEF Accounted, InFlight

\* A call pushes as many copies as it adds to the number sent.
LEMMA CallKeepsAccounted == ASSUME Inv, Inv', Accounted, Call PROVE Accounted'
<1>1. ASSUME NEW s \in Node, NEW to \in SUBSET Node, Send(s, to) PROVE Accounted'
  <2>1. UNCHANGED <<messages_delivered, delivered>> /\ sent' = sent + Cardinality(to)
    BY <1>1 DEF Send, Idle, callVars
  <2>2. InFlight' = InFlight + Cardinality(to)
    BY <1>1, SendFills
  <2>3. InFlight \in Nat /\ Cardinality(to) \in Nat
    BY PlacesFinite, DeliveryAssumption, FS_Subset, FS_CardinalityType DEF InFlight
  <2>4. messages_delivered \in Nat /\ delivered \in Nat
    BY DEF Inv, TypeOK
  <2> QED
    BY <2>1, <2>2, <2>3, <2>4 DEF Accounted
<1>2. CASE StageEvent
  BY <1>2, CountsKept DEF StageEvent, Idle, callVars
<1>3. ASSUME NEW s \in Node, DrainSilently(s) PROVE Accounted'
  BY <1>3, CountsKept DEF DrainSilently, Idle, callVars
<1>4. ASSUME NEW n \in Node, Partition(n) \/ Heal(n) PROVE Accounted'
  BY <1>4, CountsKept DEF Partition, Heal, Idle, callVars
<1>5. ASSUME NEW source \in Node, NEW n \in Node, CatchUp(source, n) PROVE Accounted'
  BY <1>5, CountsKept DEF CatchUp, Idle, callVars
<1>6. CASE BeginDelivery \/ BeginShuffle
  BY <1>6, CountsKept DEF BeginDelivery, BeginShuffle
<1> QED
  BY <1>1, <1>2, <1>3, <1>4, <1>5, <1>6
  DEF Call, Broadcast, BroadcastWithFailures, SendWithDrops

\* A turn of a delivery counts the copy that it takes from a queue.
LEMMA StepKeepsAccounted == ASSUME Inv, Accounted, DeliveryStep PROVE Accounted'
<1>1. ASSUME NEW n \in Node, Receive(n) PROVE Accounted'
  <2>1. /\ UNCHANGED <<messages_delivered, sent>> /\ delivered' = delivered + 1
        /\ InFlight \in Nat /\ InFlight' = InFlight - 1
    BY <1>1, ReceiveEmpties DEF Receive
  <2> QED
    BY <2>1 DEF Accounted, Inv, TypeOK
<1>2. ASSUME NEW n \in Node, ProcessInbox(n) \/ NextQueue(n) PROVE Accounted'
  BY <1>2, CountsKept DEF ProcessInbox, NextQueue
<1>3. ASSUME NEW n \in Node, ShuffleStep(n) PROVE Accounted'
  BY <1>3, ShuffleKeepsPlaces, CountsKept DEF ShuffleStep
<1>4. CASE EndShuffle
  BY <1>4, CountsKept DEF EndShuffle
<1>5. CASE EndDelivery
  <2>1. /\ messages_delivered' = messages_delivered + delivered /\ delivered' = 0
        /\ UNCHANGED <<message_queues, sent>>
    BY <1>5 DEF EndDelivery
  <2>2. InFlight' = InFlight /\ InFlight \in Nat
    BY <2>1, PlacesFinite DEF InFlight, PlacesOf
  <2> QED
    BY <2>1, <2>2 DEF Accounted, Inv, TypeOK
<1> QED
  BY <1>1, <1>2, <1>3, <1>4, <1>5 DEF DeliveryStep

\* With every queue empty nothing is in flight.
LEMMA NothingInFlight ==
  ASSUME \A n \in Node : message_queues[n] = <<>>
  PROVE  InFlight = 0
<1>1. PlacesOf(Node) = {}
  BY DEF PlacesOf
<1> QED
  BY <1>1, FS_EmptySet DEF InFlight

\* A new simulation has sent and delivered nothing.
LEMMA InitEstablishesAccounted == ASSUME Init PROVE Accounted
BY NothingInFlight DEF Init, Accounted

\* Every copy of a message that was ever pushed is in a queue or has been counted
\* as delivered, once, whatever was dropped, shuffled or empty.
THEOREM MessagesAreAccountedFor == Spec => []Accounted
<1>1. Init => Accounted
  BY InitEstablishesAccounted
<1>2. Inv /\ Inv' /\ Accounted /\ [Next]_vars => Accounted'
  <2> SUFFICES ASSUME Inv, Inv', Accounted, [Next]_vars PROVE Accounted'
    OBVIOUS
  <2>1. CASE UNCHANGED vars
    BY <2>1, CountsKept DEF vars, deliveryVars, callVars
  <2> QED
    BY <2>1, CallKeepsAccounted, StepKeepsAccounted DEF Next
<1> QED
  BY <1>1, <1>2, Invariance, PTL DEF Spec

-----------------------------------------------------------------------------
(* Turns of a delivery --------------------------------------------------- *)

\* Swaps are counted for the queue being shuffled only, and stay below its length.
DrawnInQueue ==
  drawn # 0 => \E n \in Node : AtTurn("shuffle", n) /\ drawn < Len(message_queues[n])

\* No step lets the swaps of a queue outnumber its messages.
LEMMA DrawnInductive ==
  ASSUME Inv, DrawnInQueue, [Next]_vars PROVE DrawnInQueue'
<1> USE DEF DrawnInQueue
<1>1. CASE running = "none"
  <2>1. drawn = 0
    BY <1>1 DEF AtTurn
  <2>2. drawn' = drawn
    BY <1>1 DEF Next, Call, StageEvent, Broadcast, BroadcastWithFailures, SendWithDrops, Send,
                DrainSilently, Partition, Heal, CatchUp, BeginDelivery, BeginShuffle, Idle,
                DeliveryStep, Receive, ProcessInbox, ShuffleStep, NextQueue, AtTurn,
                EndShuffle, EndDelivery, vars, deliveryVars, callVars
  <2> QED
    BY <2>1, <2>2
<1>2. CASE UNCHANGED vars
  BY <1>2 DEF vars, deliveryVars, callVars, AtTurn
<1>3. CASE running # "none" /\ Next
  <2>1. ASSUME NEW n \in Node, Receive(n) \/ ProcessInbox(n) PROVE DrawnInQueue'
    BY <2>1 DEF Receive, ProcessInbox, AtTurn
  <2>2. ASSUME NEW n \in Node, ShuffleStep(n) PROVE DrawnInQueue'
    <3>1. Len(message_queues'[n]) = Len(message_queues[n])
      <4>1. PICK i, j \in Nat :
               /\ i < Len(message_queues[n]) /\ j < Len(message_queues[n])
               /\ message_queues' = [message_queues EXCEPT ![n] = Swap(@, i, j)]
        BY <2>2, ShuffleSwaps
      <4>2. Swap(message_queues[n], i, j) \in Seq(Message)
        BY <4>1, SwapKeepsCarried DEF Inv, TypeOK
      <4>3. message_queues'[n] = Swap(message_queues[n], i, j) /\ message_queues[n] \in Seq(Message)
        BY <4>1 DEF Inv, TypeOK
      <4>4. DOMAIN Swap(message_queues[n], i, j) = DOMAIN message_queues[n]
        BY DEF Swap
      <4> HIDE DEF Swap
      <4> QED
        BY <4>2, <4>3, <4>4
    <3>2. drawn' = drawn + 1 /\ Len(message_queues[n]) - 1 - drawn >= 1 /\ AtTurn("shuffle", n)'
      BY <2>2 DEF ShuffleStep, Position, AtTurn
    <3>3. drawn \in Nat /\ Len(message_queues[n]) \in Nat
      BY DEF Inv, TypeOK
    <3>4. drawn' < Len(message_queues'[n])
      BY <3>1, <3>2, <3>3
    <3> QED
      BY <3>2, <3>4
  <2>3. ASSUME NEW n \in Node, NextQueue(n) PROVE DrawnInQueue'
    BY <2>3 DEF NextQueue
  <2>4. CASE EndShuffle \/ EndDelivery
    BY <2>4 DEF EndShuffle, EndDelivery, AtTurn
  <2>5. ~Call
    BY <1>3 DEF Call, StageEvent, Broadcast, BroadcastWithFailures, SendWithDrops, Send,
                DrainSilently, Partition, Heal, CatchUp, BeginDelivery, BeginShuffle, Idle
  <2> QED
    BY <1>3, <2>1, <2>2, <2>3, <2>4, <2>5 DEF Next, DeliveryStep
<1> QED
  BY <1>1, <1>2, <1>3

\* The swaps are fewer than the messages in every reachable state.
LEMMA DrawnInvariant == Spec => []DrawnInQueue
<1>1. Init => DrawnInQueue
  BY DEF Init, DrawnInQueue
<1>2. Inv /\ DrawnInQueue /\ [Next]_vars => DrawnInQueue'
  BY DrawnInductive
<1> QED
  BY <1>1, <1>2, Invariance, PTL DEF Spec

\* A number drawn from a generator that is not at zero lies in its range.
LEMMA DrawsInBounds == ASSUME Inv PROVE SwapInBounds
<1> SUFFICES ASSUME NEW n \in Node, Position(n) >= 1
             PROVE  NextRange(NextU64(rng), Position(n) + 1) \in 0 .. Position(n)
  BY DEF SwapInBounds
<1>1. NextU64(rng) \in Word
  BY DrawIsNotZero DEF Inv, TypeOK, RngNeverZero
<1>2. Position(n) \in Int
  BY DEF Position, Inv, TypeOK
<1> DEFINE range == Position(n) + 1
<1>3. range \in Nat \ {0} /\ range - 1 = Position(n)
  BY <1>2
<1> HIDE DEF range
<1>4. NextRange(NextU64(rng), range) \in 0 .. range - 1
  BY <1>1, <1>3, RangeInBounds
<1> QED
  BY <1>3, <1>4 DEF range

\* The random indexes of the shuffle lie in the part of the queue still to be
\* shuffled, so `swap` is never out of bounds.
THEOREM SwapsStayInBounds == Spec => []SwapInBounds
BY DrawsInBounds, Invariance, PTL

-----------------------------------------------------------------------------
(* Refinement ------------------------------------------------------------ *)

\* Between deliveries the abstract state is the state, queues flattened.
ViewIdle ==
  running # "deliver" => /\ graphSeen = graph
                         /\ inboxSeen = inbox
                         /\ queuesSeen = [n \in Node |-> Carried(message_queues[n])]

\* Between deliveries the abstract state is the detailed one.
LEMMA IdleView == Inv => ViewIdle
BY DEF Inv, TypeOK, NodeTypeOK, ViewIdle, graphSeen, inboxSeen, queuesSeen, Delivering

\* During a delivery the abstract one is over.
ViewDelivering ==
  running = "deliver" =>
    /\ graphSeen = [n \in Node |->
                      InsertAll(graph[n], inbox[n] \union Carried(message_queues[n]))]
    /\ inboxSeen = [n \in Node |-> {}]
    /\ queuesSeen = [n \in Node |-> {}]

\* While deliver_all runs the abstract graphs hold what is still to come.
LEMMA DeliveringView == ViewDelivering
BY DEF ViewDelivering, graphSeen, inboxSeen, queuesSeen, Delivering

\* An inbox without events adds nothing.
LEMMA InsertNone ==
  ASSUME NEW G, NEW S
  PROVE  InsertAll(InsertAll(G, S), {}) = InsertAll(G, S)
BY DEF InsertAll

\* Staging is a staging of the abstract system.
LEMMA SameStaging ==
  ASSUME Inv, ViewIdle, ViewIdle', StageEvent
  PROVE  Atomic!StageEvent
<1>1. PICK n \in Node, kind \in Kinds, t \in Task :
         StageManual(n, kind, t) \/ StageAuto(n, kind, t)
  BY DEF StageEvent
<1>2. /\ graphSeen = graph /\ graphSeen' = graph' /\ inboxSeen = inbox /\ inboxSeen' = inbox'
      /\ queuesSeen' = queuesSeen /\ partitioned' = partitioned
  BY DEF StageEvent, Idle, callVars, ViewIdle
<1>3. \A parents : Stage(n, kind, t, parents) => Atomic!Stage(n, kind, t, parents)
  BY <1>2 DEF Stage, Push, NewEvent, Past, Atomic!Stage, Atomic!Push, Atomic!NewEvent, Atomic!Past
<1>4. CASE StageManual(n, kind, t)
  BY <1>2, <1>3, <1>4 DEF StageManual, Ids, History, Atomic!StageEvent, Atomic!StageManual,
                          Atomic!Ids, Atomic!History
<1>5. CASE StageAuto(n, kind, t)
  <2>1. Atomic!FrontierFor(n, t) = FrontierFor(n, t)
    BY <1>2 DEF FrontierFor, Known, InsertAll, ExtractTaskSubgraph, Ids, Atomic!FrontierFor,
                Atomic!Known, Atomic!InsertAll, Atomic!ExtractTaskSubgraph, Atomic!Ids
  <2> QED
    BY <1>2, <1>3, <1>5, <2>1 DEF StageAuto, Atomic!StageEvent, Atomic!StageAuto
<1> QED
  BY <1>1, <1>4, <1>5

\* Pushing a message to queues pushes its events to the abstract queues.
LEMMA SameSend ==
  ASSUME Inv, ViewIdle, ViewIdle', NEW s \in Node, NEW to \in SUBSET Node, Send(s, to)
  PROVE  Atomic!Send(s, to)
<1>1. /\ graphSeen = graph /\ graphSeen' = graph' /\ inboxSeen = inbox /\ inboxSeen' = inbox'
      /\ queuesSeen = [n \in Node |-> Carried(message_queues[n])]
      /\ queuesSeen' = [n \in Node |-> Carried(message_queues'[n])]
  BY DEF Send, Idle, callVars, ViewIdle
<1>2. ASSUME NEW n \in Node
      PROVE  queuesSeen'[n] = IF n \in to THEN queuesSeen[n] \union outbox[s] ELSE queuesSeen[n]
  <2>1. message_queues[n] \in Seq(Message) /\ outbox[s] \in Message
    BY DEF Inv, TypeOK, NodeTypeOK, Message
  <2>2. Carried(Append(message_queues[n], outbox[s])) = Carried(message_queues[n]) \union outbox[s]
    BY <2>1, CarriedByAppended
  <2> QED
    BY <1>1, <2>2 DEF Send
<1>3. queuesSeen' = [n \in Node |-> IF n \in to THEN queuesSeen[n] \union outbox[s]
                                    ELSE queuesSeen[n]]
  BY <1>1, <1>2
<1> QED
  BY <1>1, <1>3 DEF Send, EmptyOutbox, Idle, Atomic!Send, Atomic!EmptyOutbox

\* Every call but those that deliver is the same call of Simulation.
LEMMA SameCall ==
  ASSUME Inv, ViewIdle, ViewIdle', Call, ~BeginDelivery, ~BeginShuffle
  PROVE  Atomic!Next
<1> USE DEF Atomic!Next, Atomic!ReliableNext
<1>1. CASE StageEvent
  BY <1>1, SameStaging
<1>2. ASSUME NEW s \in Node, Broadcast(s) PROVE Atomic!Next
  BY <1>2, SameSend DEF Broadcast, Atomic!Broadcast
<1>3. ASSUME NEW s \in Node, NEW drops \in SUBSET Node, SendWithDrops(s, drops)
      PROVE  Atomic!Next
  BY <1>3, SameSend DEF SendWithDrops, Atomic!SendWithDrops, Atomic!BroadcastWithFailures
<1> DEFINE Same == /\ graphSeen = graph /\ graphSeen' = graph'
                   /\ inboxSeen = inbox /\ inboxSeen' = inbox'
<1>4. ASSUME NEW s \in Node, DrainSilently(s) PROVE Atomic!Next
  <2>1. Same /\ queuesSeen' = queuesSeen
    BY <1>4 DEF DrainSilently, Idle, callVars, ViewIdle
  <2> QED
    BY <1>4, <2>1 DEF DrainSilently, EmptyOutbox, Atomic!BroadcastWithFailures,
                      Atomic!DrainSilently, Atomic!EmptyOutbox
<1>5. ASSUME NEW n \in Node, Partition(n) \/ Heal(n) PROVE Atomic!Next
  <2>1. Same /\ queuesSeen' = queuesSeen
    BY <1>5 DEF Partition, Heal, Idle, callVars, nodeVars, ViewIdle
  <2> QED
    BY <1>5, <2>1 DEF Partition, Heal, nodeVars, Atomic!Partition, Atomic!Heal, Atomic!nodeVars
<1>6. ASSUME NEW source \in Node, NEW n \in Node, CatchUp(source, n) PROVE Atomic!Next
  <2>1. Same /\ queuesSeen' = queuesSeen
    BY <1>6 DEF CatchUp, Idle, callVars, ViewIdle
  <2> QED
    BY <1>6, <2>1 DEF CatchUp, Atomic!CatchUp
<1> QED
  BY <1>1, <1>2, <1>3, <1>4, <1>5, <1>6 DEF Call, BroadcastWithFailures

\* deliver_all, called directly or after the shuffle, delivers everything.
LEMMA DeliveryBegins ==
  ASSUME Inv, ViewIdle, ViewDelivering', BeginDelivery \/ EndShuffle
  PROVE  Atomic!DeliverAll
<1>1. /\ running # "deliver" /\ running' = "deliver"
      /\ UNCHANGED <<nodeVars, message_queues, partitioned>>
  BY DEF BeginDelivery, EndShuffle
<1>2. /\ graphSeen = graph /\ inboxSeen = inbox
      /\ queuesSeen = [n \in Node |-> Carried(message_queues[n])]
  BY <1>1 DEF ViewIdle
<1>3. /\ graphSeen' = [n \in Node |->
                         InsertAll(graph[n], inbox[n] \union Carried(message_queues[n]))]
      /\ inboxSeen' = [n \in Node |-> {}] /\ queuesSeen' = [n \in Node |-> {}]
  BY <1>1 DEF ViewDelivering, nodeVars
<1>4. \A G, S : Atomic!InsertAll(G, S) = InsertAll(G, S)
  BY DEF InsertAll, Ids, Atomic!InsertAll, Atomic!Ids
<1> QED
  BY <1>1, <1>2, <1>3, <1>4 DEF nodeVars, Atomic!DeliverAll

\* The steps of the shuffle show only in the order of the queues.
LEMMA ShuffleStutters ==
  ASSUME Inv, ViewIdle, ViewIdle',
         BeginShuffle \/ \E n \in Node : ShuffleStep(n) \/ NextQueue(n)
  PROVE  UNCHANGED Atomic!vars
<1>1. /\ running # "deliver" /\ running' # "deliver"
      /\ UNCHANGED <<nodeVars, partitioned>>
  BY DEF BeginShuffle, ShuffleStep, NextQueue, AtTurn
<1>2. \A m \in Node : Carried(message_queues'[m]) = Carried(message_queues[m])
  <2>1. CASE UNCHANGED message_queues
    BY <2>1
  <2>2. ASSUME NEW n \in Node, ShuffleStep(n)
        PROVE  \A m \in Node : Carried(message_queues'[m]) = Carried(message_queues[m])
    <3>1. PICK i, j \in Nat :
             /\ i < Len(message_queues[n]) /\ j < Len(message_queues[n])
             /\ message_queues' = [message_queues EXCEPT ![n] = Swap(@, i, j)]
      BY <2>2, ShuffleSwaps
    <3>2. Carried(Swap(message_queues[n], i, j)) = Carried(message_queues[n])
      BY <3>1, SwapKeepsCarried DEF Inv, TypeOK
    <3> QED
      BY <3>1, <3>2 DEF Inv, TypeOK
  <2> QED
    BY <2>1, <2>2 DEF BeginShuffle, NextQueue
<1> QED
  BY <1>1, <1>2 DEF ViewIdle, nodeVars, Atomic!vars, Atomic!nodeVars

\* A turn of deliver_all's loops moves on what counts as delivered already.
LEMMA LoopStutters ==
  ASSUME Inv, ViewDelivering, ViewDelivering', NEW n \in Node, Receive(n) \/ ProcessInbox(n)
  PROVE  UNCHANGED Atomic!vars
<1> DEFINE Rest(m) == inbox[m] \union Carried(message_queues[m])
<1>1. /\ running = "deliver" /\ running' = "deliver"
      /\ UNCHANGED <<outbox, next, issued, partitioned>>
  BY DEF Receive, ProcessInbox, AtTurn
<1>2. ASSUME NEW m \in Node
      PROVE  InsertAll(graph'[m], inbox'[m] \union Carried(message_queues'[m]))
               = InsertAll(graph[m], Rest(m))
  <2>1. CASE m # n
    BY <2>1 DEF Receive, ProcessInbox, Inv, TypeOK, NodeTypeOK
  <2>2. CASE m = n /\ Receive(n)
    <3>1. Carried(message_queues[n])
            = Head(message_queues[n]) \union Carried(Tail(message_queues[n]))
      BY <2>2, CarriedByHeadAndTail DEF Inv, TypeOK, Receive
    <3>2. /\ graph'[n] = graph[n]
          /\ inbox'[n] = inbox[n] \union Head(message_queues[n])
          /\ message_queues'[n] = Tail(message_queues[n])
      BY <2>2 DEF Inv, TypeOK, NodeTypeOK, Receive
    <3>3. inbox'[n] \union Carried(message_queues'[n]) = Rest(n)
      BY <3>1, <3>2
    <3> QED
      BY <2>2, <3>2, <3>3
  <2>3. CASE m = n /\ ProcessInbox(n)
    <3>1. /\ graph'[n] = InsertAll(graph[n], inbox[n]) /\ inbox'[n] = {}
          /\ message_queues[n] = <<>> /\ message_queues'[n] = <<>>
      BY <2>3 DEF Inv, TypeOK, NodeTypeOK, ProcessInbox
    <3>2. Rest(n) = inbox[n] /\ inbox'[n] \union Carried(message_queues'[n]) = {}
      BY <3>1, CarriedByNone
    <3> QED
      BY <2>3, <3>1, <3>2, InsertNone
  <2> QED
    BY <2>1, <2>2, <2>3
<1>3. graphSeen' = graphSeen /\ inboxSeen' = inboxSeen /\ queuesSeen' = queuesSeen
  BY <1>1, <1>2 DEF ViewDelivering
<1> QED
  BY <1>1, <1>3 DEF Atomic!vars, Atomic!nodeVars

\* At the end nothing is left that the delivery promised.
LEMMA EndStutters ==
  ASSUME Inv, ViewDelivering, ViewIdle', EndDelivery
  PROVE  UNCHANGED Atomic!vars
<1>1. /\ running = "deliver" /\ running' # "deliver"
      /\ UNCHANGED <<nodeVars, message_queues, partitioned>>
      /\ \A n \in Node : message_queues[n] = <<>> /\ inbox[n] = {}
  BY DEF EndDelivery, Inv, PassedAreDone
<1>2. \A n \in Node : /\ Carried(message_queues[n]) = {}
                      /\ InsertAll(graph[n], inbox[n] \union Carried(message_queues[n])) = graph[n]
  BY <1>1, CarriedByNone DEF InsertAll
<1>3. graphSeen = graph /\ inboxSeen = inbox
  BY <1>1, <1>2 DEF ViewDelivering, Inv, TypeOK, NodeTypeOK
<1>4. /\ graphSeen' = graph /\ inboxSeen' = inbox
      /\ queuesSeen' = [n \in Node |-> Carried(message_queues[n])]
  BY <1>1 DEF ViewIdle, nodeVars
<1>5. queuesSeen' = queuesSeen
  BY <1>1, <1>2, <1>4 DEF ViewDelivering
<1> QED
  BY <1>1, <1>3, <1>4, <1>5 DEF nodeVars, Atomic!vars, Atomic!nodeVars

\* When the detailed state stays, the abstract one does.
LEMMA UnchangedStutters == ASSUME UNCHANGED vars PROVE UNCHANGED Atomic!vars
BY DEF vars, nodeVars, deliveryVars, callVars, graphSeen, inboxSeen, queuesSeen, Delivering,
       Carried, Atomic!vars, Atomic!nodeVars

\* Every step is one of the abstract system or changes nothing there.
LEMMA EveryStepMaps ==
  ASSUME Inv, ViewIdle, ViewIdle', [Next]_vars
  PROVE  [Atomic!Next]_(Atomic!vars)
<1>1. ViewDelivering /\ ViewDelivering'
  BY DEF ViewDelivering, graphSeen, inboxSeen, queuesSeen, Delivering
<1>2. CASE BeginDelivery \/ EndShuffle
  BY <1>1, <1>2, DeliveryBegins DEF Atomic!Next, Atomic!ReliableNext
<1>3. CASE BeginShuffle
  BY <1>3, ShuffleStutters
<1>4. CASE Call /\ ~BeginDelivery /\ ~BeginShuffle
  BY <1>4, SameCall
<1>5. CASE DeliveryStep /\ ~EndShuffle
  BY <1>1, <1>5, ShuffleStutters, LoopStutters, EndStutters DEF DeliveryStep
<1>6. CASE UNCHANGED vars
  BY <1>6, UnchangedStutters
<1> QED
  BY <1>2, <1>3, <1>4, <1>5, <1>6 DEF Next, DeliveryStep

\* The loops of deliver_all and deliver_all_shuffled, message by message in any
\* random order, implement the one-step delivery of Simulation.
THEOREM ImplementsSimulation == Spec => Refinement
<1>1. Init => Atomic!Init
  <2> SUFFICES ASSUME Init PROVE Atomic!Init
    OBVIOUS
  <2>1. /\ graphSeen = graph /\ inboxSeen = inbox
        /\ queuesSeen = [n \in Node |-> {}]
    BY InitEstablishesInv, IdleView, CarriedByNone DEF Init, ViewIdle
  <2> QED
    BY <2>1 DEF Init, NodeInit, Atomic!Init, Atomic!NodeInit
<1>2. Inv /\ ViewIdle /\ ViewIdle' /\ [Next]_vars => [Atomic!Next]_(Atomic!vars)
  BY EveryStepMaps
<1>3. Inv => ViewIdle
  BY IdleView
<1> QED
  BY <1>1, <1>2, <1>3, Invariance, PTL DEF Spec, Refinement, Atomic!Spec
=============================================================================
