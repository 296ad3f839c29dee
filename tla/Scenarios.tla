----------------------------- MODULE Scenarios -----------------------------
(***************************************************************************)
(* node_sim/src/scenarios.rs and the main program: five scripts of calls   *)
(* on a simulation, each run for one seed and then for seeds 1 to 10, with *)
(* the snapshot taken after every round and the summary made of each run.  *)
(***************************************************************************)
EXTENDS Delivery

CONSTANT LastSeed           \* main runs every scenario with the seeds 1 to LastSeed: 10

VARIABLES job,              \* the run that main is in
          pc,               \* the next call of its script; 0: not yet entered
          snapshots,        \* the metrics collected in this run
          summaries         \* the SeedSummary of every multi-seed run so far

\* The seeds are numbers of so many bits.
SeedBits == 30

\* The scripts name the nodes and tasks; ids and operations are in range; None is
\* not the number of a round.
ASSUME ProgramAssumption ==
  /\ None \notin Nat /\ Node = {0, 1, 2} /\ {1, 2} \subseteq Task
  /\ Kinds = Kind /\ {"manual", "auto"} \subseteq Wiring
  /\ LastSeed \in Nat \ {0} /\ LastSeed < 2^SeedBits
  /\ Seed =< 1 /\ Seed + MaxEvents >= LastSeed + 3

programVars == <<job, pc, snapshots, summaries>>
allVars == <<vars, programVars>>

(* The scripts ----------------------------------------------------------- *)

Manual(n, kind, t, parents) ==
  [op |-> "manual", node |-> n, kind |-> kind, task |-> t, parents |-> parents]
Automatic(n, kind, t) == [op |-> "auto", node |-> n, kind |-> kind, task |-> t]
On(op, n) == [op |-> op, node |-> n]
Backlog(source, n) == [op |-> "backlog", source |-> source, node |-> n]
Do(op) == [op |-> op]

TrackedTask == 1

Round == <<Do("deliver_all"), Do("snapshot")>>
ShuffledRound == <<Do("deliver_all_shuffled"), Do("snapshot")>>

\* The k-th id that EventCounter::new(seed) hands out.
Drawn(seed, k) == seed + k - 1

NoPartition(seed) ==
  <<Manual(0, "Create", 1, {}), On("broadcast", 0)>> \o Round \o
  <<Manual(1, "Claim", 1, {Drawn(seed, 1)}), On("broadcast", 1)>> \o Round \o
  <<Manual(2, "Complete", 1, {Drawn(seed, 2)}), On("broadcast", 2)>> \o Round

\* What both partition scenarios do while node 2 is cut off.
WithoutNode2(seed) ==
  <<Manual(0, "Create", 1, {}), On("broadcast_with_failures", 0)>> \o Round \o
  <<Manual(1, "Claim", 1, {Drawn(seed, 1)}), On("broadcast_with_failures", 1)>> \o Round

\* Mutant: only the flag is cleared.
HealingWithoutBacklog ==
  <<On("heal", 2), Manual(0, "Create", 2, {}), On("broadcast", 0)>> \o Round

\* Heal node 2, push node 0's events into its inbox, and one more round.
Healing == <<On("heal", 2), Backlog(0, 2), Manual(0, "Create", 2, {}), On("broadcast", 0)>> \o Round

\* Mutant: node 2 is cut off a round late.
ShortPartitionLate(seed) ==
  <<Manual(0, "Create", 1, {}), On("broadcast", 0)>> \o Round \o
  <<On("partition", 2), Manual(1, "Claim", 1, {Drawn(seed, 1)}),
    On("broadcast_with_failures", 1)>> \o Round \o Healing

\* Mutant: the broadcast that does not look at partitions.
ShortPartitionIgnored(seed) ==
  <<On("partition", 2), Manual(0, "Create", 1, {}), On("broadcast", 0)>> \o Round \o Healing

ShortPartition(seed) == <<On("partition", 2)>> \o WithoutNode2(seed) \o Healing

LongPartition(seed) ==
  <<On("partition", 2)>> \o WithoutNode2(seed) \o Round \o Round \o Round \o Healing

HighContention(seed) ==
  <<On("partition", 0), On("partition", 1), On("partition", 2),
    Manual(0, "Create", 1, {}), Manual(1, "Claim", 1, {}), Manual(2, "Claim", 1, {}),
    On("heal", 0), On("heal", 1), On("heal", 2),
    On("broadcast", 0)>> \o Round \o <<On("broadcast", 1)>> \o Round \o
  <<On("broadcast", 2)>> \o Round

AutoFrontierReordered(seed) ==
  <<Automatic(0, "Create", 1), On("broadcast", 0)>> \o ShuffledRound \o
  <<Automatic(1, "Claim", 1), On("broadcast", 1)>> \o ShuffledRound \o
  <<Automatic(2, "Complete", 1), On("broadcast", 2)>> \o ShuffledRound

Scenario == <<"no_partition", "short_partition", "long_partition", "high_contention",
              "auto_frontier_reordered">>

Script(scenario, seed) ==
  CASE scenario = "no_partition" -> NoPartition(seed)
    [] scenario = "short_partition" -> ShortPartition(seed)
    [] scenario = "long_partition" -> LongPartition(seed)
    [] scenario = "high_contention" -> HighContention(seed)
    [] scenario = "auto_frontier_reordered" -> AutoFrontierReordered(seed)

\* main: every scenario with seed 1, then every scenario with all the seeds
\* (run_multi_seed takes any).
SingleRuns == [k \in 1 .. 5 |-> [scenario |-> Scenario[k], seed |-> 1, multi |-> FALSE]]
MultiRuns == [k \in 1 .. 5 * LastSeed |-> [scenario |-> Scenario[(k - 1) \div LastSeed + 1],
                                           seed |-> ((k - 1) % LastSeed) + 1, multi |-> TRUE]]
Jobs == SingleRuns \o MultiRuns

Finished == job > Len(Jobs)
ThisRun == Jobs[job]
ThisScript == Script(ThisRun.scenario, ThisRun.seed)
AtEnd == ~Finished /\ pc > Len(ThisScript) /\ running = "none"

(* Metrics --------------------------------------------------------------- *)

\* All nodes hold the same ids.
EventsConverged == \A m, n \in Node : Ids(graph[m]) = Ids(graph[n])

KnownTasks == {e.task : e \in UNION {graph[n] : n \in Node}}

DerivedStatesConverged ==
  \A t \in KnownTasks, m, n \in Node :
    DeriveTaskState(graph[m], t) = DeriveTaskState(graph[n], t)

CollectMetrics ==
  [event_counts |-> [n \in Node |-> Cardinality(graph[n])],
   conflict_counts |-> [n \in Node |-> IF DeriveTaskState(graph[n], TrackedTask).has_conflict
                                       THEN 1 ELSE 0],
   message_count |-> messages_delivered,
   converged |-> EventsConverged /\ DerivedStatesConverged,
   edge_counts |-> [n \in Node |-> Cardinality(Mentioned(graph[n]))],
   convergence_round |-> None]

\* The first converged snapshot.
FindConvergenceRound(metrics) ==
  LET rounds == {k \in DOMAIN metrics : metrics[k].converged}
  IN  IF rounds = {} THEN None ELSE Min(rounds)

StampConvergenceRound(metrics) ==
  [k \in DOMAIN metrics |->
     [metrics[k] EXCEPT !.convergence_round = FindConvergenceRound(metrics)]]

\* SeedSummary of a run, from its last snapshot.
Summary(run, last) ==
  [scenario |-> run.scenario, seed |-> run.seed,
   convergence_round |-> last.convergence_round,
   final_event_counts |-> last.event_counts,
   final_conflict_counts |-> last.conflict_counts,
   total_messages |-> last.message_count,
   final_edge_counts |-> last.edge_counts]

\* The summary block of a scenario's multi-seed file (without the average).
Aggregate(scenario) ==
  LET of == {summaries[k] : k \in {l \in DOMAIN summaries : summaries[l].scenario = scenario}}
      rounds == {s.convergence_round : s \in of} \ {None}
  IN  [min |-> IF rounds = {} THEN None ELSE Min(rounds),
       max |-> IF rounds = {} THEN None ELSE Max(rounds),
       always_converged |-> of # {} /\ \A s \in of : s.convergence_round # None]

(* The program ----------------------------------------------------------- *)

\* The one-bits of a seed: what `seed as u64` is.
Binary(seed) == {b \in 0 .. SeedBits - 1 : (seed \div 2^b) % 2 = 1}

\* Simulation::new, EventCounter::new(seed) and Xorshift64::new(seed).
NewSimulation(seed) ==
  /\ graph' = [n \in Node |-> {}] /\ outbox' = [n \in Node |-> {}]
  /\ inbox' = [n \in Node |-> {}]
  /\ next' = seed /\ issued' = {}
  /\ message_queues' = [n \in Node |-> <<>>] /\ partitioned' = {}
  /\ rng' = New(Binary(seed))
  /\ messages_delivered' = 0 /\ sent' = 0
  /\ UNCHANGED <<running, waiting, drawn, delivered>>

\* A scenario function is entered.
Start == /\ ~Finished
         /\ pc = 0
         /\ NewSimulation(ThisRun.seed)
         /\ pc' = 1
         /\ snapshots' = <<>>
         /\ UNCHANGED <<job, summaries>>

\* The calls on the simulation that a script makes.
Invoke(call) ==
  \/ /\ call.op \in {"manual", "auto"}
     /\ Idle
     /\ Stage(call.node, call.kind, call.task,
              IF call.op = "manual" THEN call.parents ELSE FrontierFor(call.node, call.task))
     /\ UNCHANGED <<message_queues, partitioned, messages_delivered, sent>>
  \/ call.op = "broadcast" /\ Broadcast(call.node)
  \/ call.op = "broadcast_with_failures" /\ BroadcastWithFailures(call.node, {})
  \/ call.op = "partition" /\ Partition(call.node)
  \/ call.op = "heal" /\ Heal(call.node)
  \/ call.op = "backlog" /\ CatchUp(call.source, call.node)
  \/ call.op = "deliver_all" /\ BeginDelivery
  \/ call.op = "deliver_all_shuffled" /\ BeginShuffle

ScriptStep == /\ ~Finished
              /\ pc \in DOMAIN ThisScript
              /\ pc' = pc + 1
              /\ \/ Invoke(ThisScript[pc]) /\ UNCHANGED snapshots
                 \/ /\ ThisScript[pc].op = "snapshot"
                    /\ running = "none"
                    /\ snapshots' = Append(snapshots, CollectMetrics)
                    /\ UNCHANGED vars
              /\ UNCHANGED <<job, summaries>>

\* A delivery that the script has called goes on.
LoopStep == DeliveryStep /\ UNCHANGED programVars

\* The scenario stamps the convergence round and returns; main or run_multi_seed
\* takes its results.
Return == /\ AtEnd
          /\ LET stamped == StampConvergenceRound(snapshots)
             IN  /\ snapshots' = stamped
                 /\ summaries' = IF ThisRun.multi
                                 THEN Append(summaries, Summary(ThisRun, stamped[Len(stamped)]))
                                 ELSE summaries
          /\ job' = job + 1
          /\ pc' = 0
          /\ UNCHANGED vars

ProgramInit == /\ Init
               /\ job = 1 /\ pc = 0 /\ snapshots = <<>> /\ summaries = <<>>

ProgramNext == Start \/ ScriptStep \/ LoopStep \/ Return

\* The program is sequential and does nothing but go on.
ProgramSpec == ProgramInit /\ [][ProgramNext]_allVars /\ WF_allVars(ProgramNext)

(* Properties ------------------------------------------------------------ *)

Per(a, b, c) == [n \in Node |-> <<a, b, c>>[n + 1]]

Snapshot(messages, events, conflicts, edges, converged, round) ==
  [event_counts |-> events, conflict_counts |-> conflicts, message_count |-> messages,
   converged |-> converged, edge_counts |-> edges, convergence_round |-> round]

\* The rounds of results/no_partition_seed1.json; auto_frontier_reordered's are the same.
RecordedChain ==
  LET All(k) == Per(k, k, k)
  IN  <<Snapshot(3, All(1), All(0), All(0), TRUE, 1), Snapshot(6, All(2), All(0), All(1), TRUE, 1),
        Snapshot(9, All(3), All(0), All(2), TRUE, 1)>>

\* results/high_contention_seed1.json
RecordedContention ==
  LET All(k) == Per(k, k, k)
  IN  <<Snapshot(3, All(1), All(0), All(0), TRUE, 1), Snapshot(6, All(2), All(0), All(0), TRUE, 1),
        Snapshot(9, All(3), All(1), All(0), TRUE, 1)>>

\* results/short_partition_seed1.json and, with `idle` more rounds, long_partition_seed1.json.
RecordedPartition(idle) ==
  LET none == Per(0, 0, 0)
      Apart(messages, k) == Snapshot(messages, Per(k, k, 0), none, Per(k - 1, k - 1, 0), FALSE, idle + 3)
  IN  <<Apart(2, 1)>> \o [k \in 1 .. idle + 1 |-> Apart(4, 2)]
      \o <<Snapshot(7, Per(3, 3, 3), none, Per(1, 1, 1), TRUE, idle + 3)>>

Recorded(scenario) ==
  CASE scenario \in {"no_partition", "auto_frontier_reordered"} -> RecordedChain
    [] scenario = "high_contention" -> RecordedContention
    [] scenario = "short_partition" -> RecordedPartition(0)
    [] scenario = "long_partition" -> RecordedPartition(3)

\* The system as modelled, from staging to metrics, reproduces the rounds of the
\* result files of the repository for every seed (event, message, edge and conflict
\* counts, convergence) and the summary over the seeds without its average. So "the
\* outcome does not depend on the specific IDs chosen" (README.md:257-258). The
\* numbers in the logs of the files are not compared.
MatchesRecorded ==
  /\ AtEnd => StampConvergenceRound(snapshots) = Recorded(ThisRun.scenario)
  /\ Finished => \A k \in DOMAIN Scenario :
       LET round == Recorded(Scenario[k])[1].convergence_round
       IN  Aggregate(Scenario[k]) = [min |-> round, max |-> round, always_converged |-> TRUE]

\* find_convergence_round reports the first converged round and looks no further:
\* no script may come apart again after it.
ConvergenceLasts ==
  \A j, k \in DOMAIN snapshots : j < k /\ snapshots[j].converged => snapshots[k].converged

\* The last round of a script leaves nothing behind that `converged` does not see:
\* no staged or queued event and no partition, and every node has every event.
\* The backlog runs one way only, from node 0 to node 2.
EndsSettled ==
  AtEnd => /\ \A n \in Node : /\ graph[n] = History
                              /\ outbox[n] = {} /\ inbox[n] = {} /\ message_queues[n] = <<>>
           /\ partitioned = {}

\* In the scenarios a partition does cut a node off ("One node cut off for 2
\* rounds", README.md:285): only the script's choice of the broadcast that honours
\* it, and of a moment with empty queues, makes it so.
CutOffGetsNothing == [][\A n \in partitioned : graph'[n] = graph[n]]_allVars

\* The program goes through all its runs and ends.
ProgramEnds == <>Finished

\* "In `auto_frontier_reordered` it also seeds the PRNG that shuffles delivery
\* order, so different seeds exercise different arrival orders" (README.md:253-254):
\* by the end of the scenario the generator has been asked for a number.
SeedShuffles ==
  AtEnd /\ ThisRun.scenario = "auto_frontier_reordered" => rng # New(Binary(ThisRun.seed))
=============================================================================
