# A formal model of the causal-graph task coordinator

TLA+ modules, TLC models and TLAPS proofs for the Rust workspace
`local_first_task_coordination/`: an append-only causal graph of events (a
CRDT), a task model derived from it, and a deterministic simulation of nodes
that exchange events over a network with drops and partitions. Paths below are
relative to that directory unless they start with `README.md`, which is the
repository's.

## 1. Inventory

| Component | State | Operations | Talks to |
|---|---|---|---|
| `crdt_core/src/causal_graph.rs` | `events` (id -> event), and two indexes: `children` (parent -> children), `by_task` (task -> ids) | `insert`, `merge`, lookups | used by everything below |
| `crdt_core/src/message.rs` | the set of events of a batch | `add`, `from_events` | node outbox -> queue -> inbox |
| `task_model/src/lib.rs` | none: pure functions of a graph | `derive_task_state`, `resolve`, `has_concurrent_pair`, `causally_precedes` | reads a `CausalGraph` |
| `node_sim/src/node.rs` | `graph`, `outbox`, `inbox` | stage an event (`create/claim/complete_task`, `_next`, `_auto`), `frontier_for`, `receive`, `process_inbox`, `collect_outbox_as_message` | the shared `EventCounter`; called by the simulation |
| `node_sim/src/simulation.rs` | the nodes, `message_queues`, `partitioned`, `messages_delivered`, `log` | `broadcast`, `broadcast_with_failures`, `deliver_all`, `deliver_all_shuffled`, `partition`, `heal`, `step`, metrics | nodes, `rng` |
| `node_sim/src/scenarios.rs` | the rounds of five scripts | the scenarios, multi-seed runs, JSON summaries | the simulation |
| `node_sim/src/rng.rs` | a `u64` | `next_u64`, `next_range`, `shuffle` | `deliver_all_shuffled` |
| `node_sim/src/main.rs`, `json_util.rs` | none | printing, JSON | - |

An event goes *staged (outbox) -> broadcast (a copy per queue) -> delivered
(inbox -> graph)*. Nothing runs in parallel: the harness calls one operation at
a time, but in any order, and the hard behaviour lies in that order. A node may
stage events while earlier ones are in flight; messages may be dropped for some
nodes; a partitioned sender's outbox is drained into nothing; a healed node is
brought up to date from a peer's graph; events may arrive long before their
parents, or without them. What must be true of each component:

* **causal graph** - the indexes never drift from the events; an insert or merge
  is a set union whatever the order; that rests on ids being unique.
* **task model** - the ancestry walk decides causal precedence on any graph and
  returns; every genuine conflict is flagged; a claimed task has an owner.
* **node** - ids are unique; an automatically wired event depends on all that its
  node knows of the task.
* **simulation** - actions are not lost, an author keeps its own, everything staged
  arrives everywhere when nothing fails; a delivery, whatever its loops and its shuffle do, looks like one step, counts
  every message once, and returns.
* **rng** - the generator never reaches zero, where it would stay.
* **scenarios** - a script ends with nothing in flight and everybody up to date; a
  convergence round, once reported, is not belied by a later round; a partition
  does cut its node off; the recorded results come out whatever the seed.

`PROJECT.json` lists the hazards with their lines and the properties aimed at each.

## 2. Modules

| Module | Models | Notes |
|---|---|---|
| `GrowOnlySet` | what a causal graph promises | known events per replica; `Add`, and `Join` as one atomic union |
| `CausalGraph` | `causal_graph.rs` | `graph[r]` is the Rust struct with its three fields; `InsertInto` is `insert` with its early return; a merge is its loop, one event per step in any order |
| `TaskModel` | `task_model/src/lib.rs` | operators only; `Precedes` is the meaning of `causally_precedes` |
| `AncestryWalk` | the loop of `causally_precedes` | one iteration per step |
| `Node` | `node.rs`, `EventCounter` | staging and the frontier; `issued` is a history variable |
| `Simulation` | `simulation.rs`, the backlog push of `scenarios.rs` | extends `Node` with queues and partitions; the system's specification and its properties |
| `Rng` | `rng.rs` | operators only; a machine word is the set of the positions of its one-bits |
| `Delivery` | `simulation.rs`, `message.rs`, `rng.rs`'s `shuffle` | extends `Node`; queues are sequences of messages; `deliver_all` and `deliver_all_shuffled` one turn of a loop per step; refines `Simulation` |
| `Scenarios` | `scenarios.rs`, `main` | extends `Delivery`; scripts are sequences of call records, interpreted one call per step; metrics, snapshots, summaries |
| `CausalGraphProofs`, `AncestryWalkProofs`, `SimulationProofs`, `RngProofs`, `DeliveryProofs`, `ScenariosProofs` | - | theorems about the module named |
| `HistoryProofs` | - | lemmas about `Node`'s staging, for `Simulation` and `Delivery` alike |
| `LeastNumbers` | - | the least-number principle and induction over the naturals, as facts about sets |
| `MCCausalGraph`, `MCAncestryWalk`, `MCSimulation` | - | instances for TLC |

How the data is abstracted, and why that is enough:

* A `HashMap` keyed by event id is a set of events with unique ids; `children` and
  `by_task` are relations. `causal_parents: Vec` is a set: order and repetition in
  it reach no result. The owner vectors of `TaskState` are bags, since
  sorting (`task_model/src/lib.rs:168-174`) leaves nothing of the order of iteration: the
  model takes it that this sort does its work, and has no property about it.
* From `TaskModel` upwards a graph is its set of events alone. This is what
  `IndexesAreDerived` (section 5) permits: the indexes are functions of the events.
* `Simulation` keeps per node the union of the events of its queued messages.
  `deliver_all` drains every queue completely, so it cannot tell messages apart.
  `Delivery` does, and is shown to implement `Simulation`. The refinement mapping: while
  `deliver_all` runs, each node already has in its graph what its inbox and queue still
  hold, and both look empty; otherwise a queue is the union of its messages. So
  `deliver_all` happens when it begins, and its turns, like those of a shuffle, stutter.
* In `Delivery` the variables `running`, `waiting`, `drawn` and `delivered` are the loop
  that runs, the nodes it has still to come to, the swaps made in the current queue and
  the local message count. The harness makes one call at a time, so every other action
  waits until no loop runs. A random number outside the queue would make `swap` panic;
  `ShuffleStep` has no step then, and TLC would report a deadlock.
* The cast `as u64` of the 128-bit seed (`scenarios.rs:201`) is `AsU64`, apart from
  `Rng`'s `New`, which takes a word.
* Ids come from the shared counter, as in the `_next` and `_auto` operations, which call
  `create_task`, `claim_task` and `complete_task` (`node.rs:31-55`) with the id they drew.
  Calling these directly with an id of one's own is not offered: that ids are unique is
  then the caller's duty, and every test that does so uses distinct ids. What distinct ids
  in any order come to is covered by `CausalGraph`, whose events are arbitrary.
* In `Scenarios` parents that a script takes from an earlier call are written as
  `Drawn(seed, k)`, the k-th id of the run's counter. The state between two runs (from
  `Return` to `Start`) is that of the simulation just dropped.
* The stack of the ancestry walk is a set popped in any order, which includes the
  order of the `Vec`. A second copy of an id would be popped to no effect.
* `issued` records every staged event, its author and its causal past. No action
  reads it, except that hand-wired parents are drawn from the ids in it ("real,
  already-issued ids", `causal_graph.rs:92-96`). It gives the properties a notion of
  *happened before* that does not come from the graph walks they judge.
* The debug assertion in `insert` is not an action: `EventIdsUnique` says it never
  fires. The `u128` counter is not bounded by its width: it starts at a seed of the
  order of 10.

Definitions marked `Mutant` are wrong variants of the definition that follows; each
property is known to fail when one of them is put in its place.

## 3. Runs

| Run | Instance | What it shows |
|---|---|---|
| `causal_graph` | 3 replicas, 4 events, one dangling parent, two tasks | indexes derived in every order of inserts and merge steps; lookups complete; refinement of `GrowOnlySet` |
| `ancestry_walk` | every graph on 3 ids (cycles, self-loops and unknown ids included) and every acyclic one on 4, every pair of ids | the walk's answer is `Precedes`, `Precedes` is reachability, every turn makes progress, the walk returns |
| `failures` | 2 nodes, 2 tasks (interchangeable), 3 claims with any hand-wired parents, every failure | unique ids; no hidden or imagined conflict, and a flagged one stays flagged; authors keep their own, losses only by a partitioned author; a claimed task has an owner, which changes only for a cause; the frontier covers what the node knows, where events between are missing or belong to the other task |
| `reliable` | 3 nodes, 2 tasks, 3 claims or completions, automatic parents, no failures, fairness | lock-step, no missing parents, with nothing in flight everybody knows everything, a claimed or completed task resolves to somebody, every event reaches every graph |
| `delivery` | 2 nodes, 2 claims, up to 4 pushed copies, every failure, plain and shuffled deliveries | refinement of `Simulation`; every pushed copy is in a queue or counted; swaps within the queue; the generator is not zero for the seeds 0 and 2^64; a delivery returns |
| `scenarios` | the program itself: 5 runs with seed 1, 50 with seeds 1 to 10 | the model reproduces the metrics in `results/*.json` for every seed; converged rounds stay converged; nothing is left in flight; a partition holds; the program ends |
| `own_events`, `spurious_conflict`, `partitioned_node`, `edge_count`, `reordered`, `offline_work` | small | the six disagreements of section 4 |

Why the bounds are enough. Conflict and resolution compare pairs of events along
paths, and the shortest path with an inner event has three; with three events a
graph can hold both ends of a path and miss its middle, which is what the hard cases
are made of. Two nodes give an author and an observer; the third node of `reliable`
adds nothing but more queues. Kinds of operation are limited per run (`Kinds`):
creations take part in the causal order only, completions are treated as claims are, by
the same operators. `failures` has claims only, `reliable` claims and completions, the
scenarios all three kinds, and the proofs cover every mixture.
`failures` asks in every state about a *fourth* event, the one each node would stage next
with automatic wiring (`AutoDependsOnAllKnown`); so the three staged ones are an ancestor,
a middle that got lost or belongs to the other task, and a descendant. They are wired by
hand because any set of issued parents is then possible, those of automatic wiring
included. Symmetry in the tasks is sound: no definition tells one from another.
`MaxEvents` bounds staging only; broadcasts, deliveries, failures and catch-ups are
unbounded. `Seed` is 1: nothing depends on it.
`MaxMessages` bounds the copies that a behaviour of `delivery` pushes: four allow a
queue of three messages, where the shuffle draws twice and swaps with a position other
than the last, next to another node's queue. Both of its seeds are zero in their low 64
bits and lead to the same nudged state; other states follow by drawing. `scenarios` has
no bounds of its own: 13 events and 9 copies are what the program needs, and `LastSeed`
is 10 as in `main`. The proofs cover any number of seeds.

Fairness. `Spec` has none: the harness may stop. `ReliableSpec` assumes that
`deliver_all` keeps being called and that a non-empty outbox is eventually broadcast,
which is what each scenario's round does (`scenarios.rs:26-30` and its callers); weak
fairness is enough because no other action disables either. The ancestry walk is a
sequential loop, hence weak fairness of its next step. `Delivery`'s `Spec` assumes
weak fairness of the steps of a running delivery only (a sequential loop goes on; the
harness need not make another call), `ProgramSpec` that the sequential program goes on.
`ancestry_walk`, `scenarios` and `reordered` switch deadlock checking off: the walk and
the program end.

## 4. Where code and documentation disagree

1. **A node's own events may be concurrent** (`own_events`). `node.rs:110-112` says a
   node's own pending actions are visible to itself immediately; between `broadcast`
   and `deliver_all` they are in neither of the two places that `frontier_for` reads.
2. **A re-claim may be flagged as a conflict** (`spurious_conflict`).
   `task_model/src/lib.rs:47-49` and `README.md:403-405` exclude it; it happens while
   an event between the two claims is missing. `NoConflictImagined` is the part of the
   statement that holds.
3. **A partitioned node takes deliveries** (`partitioned_node`). `simulation.rs:212` says
   it will not; `deliver_all` and `broadcast` do not look at the flag.
4. **The edge count counts parents** (`edge_count`). `README.md:378` and
   `simulation.rs:21` say edges.
5. **Nothing is reordered** (`reordered`). `README.md:253-254` and `417-419` say that the
   seed of `auto_frontier_reordered` makes for different arrival orders. Each round
   broadcasts once before it delivers (`scenarios.rs:206-216`), so each queue holds one
   message and the shuffle draws no number. Shuffled delivery itself is sound, as
   `delivery` and the proofs show; the scenario does not exercise it. The run shows it for
   the program's seeds, `NothingIsShuffled` for all.
6. **Offline work may be lost** (`offline_work`). `README.md:20-22` lets nodes work offline
   and reconcile later, and `README.md:41-43` says that conflicting actions are never
   silently dropped. `broadcast_with_failures` empties a partitioned sender's outbox and
   keeps no copy (`simulation.rs:236-240`), so what it staged is gone.
   `LostOnlyByCutOffAuthor` is the part of the statement that holds; the scenarios avoid
   the case by not letting a partitioned node broadcast.

A remark without a run: `scenarios.rs:150` says of `high_contention` that all three nodes
claim; node 0 only creates (as `README.md` says). Its rounds 1 and 2 count as converged
while claims are still in the outboxes, since `converged` looks at graphs only. That is
why `EndsSettled` is stated beside `ConvergenceLasts`.

## 5. Proofs

TLAPS checks these for every set of replicas, nodes, tasks, ids and events, every
seed and every number of staged events. The assumptions are the named `ASSUME`s:
unique ids for `CausalGraph` (`UniqueIds`), graphs over the given ids for
`AncestryWalk`, natural numbers for nodes and counter in `Node`, finitely many nodes
and 128-bit seeds for `Delivery`, and for `Scenarios` (`ProgramAssumption`) the three nodes
and two tasks that the scripts name, room for the ids they draw, and seeds below 2^30,
which keeps `Binary` in reach of TLC's integers. What a theorem needs beyond them it
states itself.

* **`CausalGraphProofs`** - `TypeCorrect`, `IndexesAreDerived`, `TaskLookupIsComplete`,
  `InsertsCommute`, `EqualEventsAreEqualGraphs`, `ImplementsGrowOnlySet`. Under unique ids
  the early return of `insert` is taken exactly when the event is there already
  (`InsertAdds`), so an insert is a union, and adding the new event's edges keeps the
  indexes derived (`InsertDerived`). A graph with derived indexes is therefore determined
  by its events: inserts commute, and replicas with equal events are equal. The
  refinement mapping counts the events a merge has still to insert as known, so the
  first step of a merge is the atomic join and the loop stutters.
* **`AncestryWalkProofs`** - `WalkIsCorrect`. The invariant `WalkInv`: what the walk has
  met lies in every ancestor-closed set around the descendant's parents (no false
  "yes"), and the parents of visited events have been met (no false "no": when the
  stack is empty they form such a set, without the ancestor). `PrecedesMeansReaches` and
  `PrecedesReaches` tie that set-theoretic meaning to paths, over finitely many ids: what
  some path reaches is a closed set, and of two ids that a path joins a shortest path, by
  the least-number principle, repeats no id, so it has no more links than there are ids.
  `WalksAdvance`: each turn either visits an id, which pays for any stack it leaves, or
  shortens the stack. (The stack is a set here. The `Vec` may hold an id more than once
  and pops the further copies with one `continue` each; visits are as many as here.)
* **`HistoryProofs`** - the invariant `HistoryInv` of all that stages events: ids are
  drawn from the counter, once; the recorded past of an event is the *least* set that is
  closed under parents and holds its own; and it holds older ids only. Least-ness is
  stated with a quantifier over sets, so that an induction over the causal order becomes
  an induction over steps.
* **`SimulationProofs`** - `TypeCorrect`, `IdsAreUnique`, `ConflictsAreFlagged`,
  `NoConflictIsImagined`, `ConflictsAreForGood`. None of these is
  inductive. `Inv` adds to `HistoryInv` that everything held anywhere has been issued. A
  precedence seen in any part of the history then implies the recorded one, hence no
  hidden conflict; a part without missing parents shows all of it, hence no imagined one.
  Whether a graph orders two of its events can change only by an event that arrives
  late; a graph with more events sees more order, but never beyond the recorded pasts,
  and these are fixed when an event is staged. So two claims that are concurrent by that
  record stay so. What is lost with time is a spurious conflict only, and
  `ConflictsStay` speaks of the genuine ones.
  Also `ClaimedTasksHaveOwners`, `OwnersChangeForCause`, `AutoDependsOnAll`: ids grow
  along the recorded past, so of any set of issued events the last one precedes none
  (`LastIssued`), hence some claim stands. A standing claim stood in every smaller graph
  that held it, so among old claims the winner cannot change. The first known event that
  a frontier failed to cover would have a younger child that is not covered either.
  `AutoDependsOnAll` assumes nothing about how the events known already were wired.
  Also `AuthorsKeepTheirOwn` and `OnlyCutOffAuthorsLose`, from the invariant that an
  outbox holds its own node's events and that what is anywhere else is in its author's
  graph or queue. And, for `ReliableSpec`, `NodesStayInLockStep`,
  `QuietMeansComplete`, `AutoNeverMisses`: inboxes are empty between deliveries; a staged
  event is in an outbox or, at every node, in the graph or the queue (`NothingLost`); a
  graph, the graph with what is on its way, and those two with the outbox each hold the
  parents they cite (`Covered`). The last one assumes that no parent is wired by hand.
* **`RngProofs`** - `DrawIsNotZero`, `SeedIsNotZero`. A shift to the left leaves the lowest
  one-bit of a word alone and a shift to the right the highest, so no word equals its own
  shift; the two extreme bits exist because of the least-number principle.
  `RangeInBounds`: the remainder is the recursive function of the long division, bit by
  bit from the highest. That such a function exists is proved first (`RestsExist`, as an
  inductive set of numbers of bits), then that every partial remainder is below the divisor.
* **`DeliveryProofs`** - for any finite set of nodes, any seeds and any number of messages.
  The invariant adds to the types that the nodes a delivery has passed have empty queues
  and inboxes (`PassedAreDone`); without it the end of a delivery would not be a stutter.
  `ImplementsSimulation`: what a queue carries is split over head and tail, grows by an
  appended message and is kept by a swap. `SwapsStayInBounds`: by `RangeInBounds`,
  and because swaps are counted for the queue being shuffled only and stay fewer than its
  messages (`DrawnInQueue`).
  `MessagesAreAccountedFor`: the copies in flight are counted as places, pairs of a node
  and a position in its queue (`PlacesOf`). A step changes one node's places, or appends
  one place at some nodes, and the number of those nodes is what the step adds.
  The theorems about
  `Simulation` hold of the abstract state of `Delivery` by the refinement.
* **`ScenariosProofs`** - about the whole program, for any number of seeds (and so of runs).
  `EveryRunMatches`, `ConvergenceStays`, `RunsEndSettled`, `CutOffNodesStay` and
  `ProgramIsSafe`. The first part of the module is a
  *timetable* (`StagedAt`, `SentAt`, `PushedAt`, `ArrivedAt`, `CutAt`, `HealedAt`,
  `SnapshotAt`): when, in calls of its script, each of a scenario's three events moves.
  `ScriptsFollow` shows that the five scripts, which are concatenations of sequences with
  ids drawn from the seed, make the calls that the timetable says. None of the properties
  is inductive: what a run ends with depends on every call before. The invariant
  `ProgramInv` gives the state before each call as a function of scenario, seed and
  position in the script (`OnTime`); in the middle of a delivery, where turns come in many
  orders, it fixes only the union of a graph and what is coming to it, which no turn
  changes (`TurnsKeepEvents`); `PassedAreDone` says that nothing is left to come at the end. The summaries of finished runs are those of their scenarios (`SummariesOnTime`),
  which carries the result from run to run and makes the block over the seeds
  (`AggregateOnTime`) independent of how many there are. The seed occurs in the timetable's
  events as the base of their ids and nowhere else; hence `EveryRunMatches` holds of any seed.
  `NothingIsShuffled` is the general form of disagreement 5: in every run of every seed
  the generator ends in the state it was made in, because no queue ever holds two messages
  (`ShortQueues`).

Only model-checked, and why:

* liveness: `Termination`, `DeliveryEnds`, `EventuallyEverywhere` and `ProgramEnds` need
  fairness and with it ENABLED, which the provers do not reach. What is proved instead is
  the safety part: `WalksAdvance` (no turn of the walk is in vain), `QuietMeansComplete` (nothing is missing once nothing moves) and `RunsEndSettled`
  (a run that reaches its end has delivered everything). That a loop which has not ended
  can always take a step is left to TLC's deadlock check and these properties.

## 6. Not modelled

* Printing, the text of the JSON files and its escaping (`json_util.rs`, the writers in
  `main.rs` and `scenarios.rs`), and the simulation's log: nothing of the system reads
  them back. The numbers that they print are modelled. The average convergence round is
  left out, a quotient of numbers that are all equal.
* The test scripts, the recorded results (other than as what `MatchesRecorded` compares
  with) and CI: no behaviour of the system.
* Crashes and restarts, timeouts and retries: the code has none; nothing is persisted.

What could still be added: the theorems about `Simulation` restated for the state of
`Delivery`.
