-------------------------- MODULE ScenariosProofs --------------------------
(***************************************************************************)
(* Proofs about the program for any number of seeds and any bounds that    *)
(* leave room for it: every event travels by the timetable of its          *)
(* scenario, whatever the seed, so the numbers recorded in the result      *)
(* files, and all else that the run shows, hold of every run.              *)
(***************************************************************************)
EXTENDS Scenarios, DeliveryProofs

-----------------------------------------------------------------------------
(* The timetable: when, in calls of its script, each of the three events   *)
(* of a scenario is staged, broadcast, pushed to a node and in its graph.  *)

Chains == {"no_partition", "auto_frontier_reordered"}
Partitions == {"short_partition", "long_partition"}
Names == Chains \union Partitions \union {"high_contention"}

\* The rounds in which nothing happens, and the calls they are made of.
IdleRounds(s) == IF s = "long_partition" THEN 3 ELSE 0
IdleCalls(s) == 2 * IdleRounds(s)

Number == 1 .. 3

Author(s, i) == IF s \in Partitions THEN IF i = 2 THEN 1 ELSE 0 ELSE i - 1

KindOf(s, i) == IF i = 1 THEN "Create"
                ELSE IF i = 2 THEN "Claim"
                ELSE IF s \in Chains THEN "Complete"
                ELSE IF s \in Partitions THEN "Create" ELSE "Claim"

TaskOf(s, i) == IF s \in Partitions /\ i = 3 THEN 2 ELSE 1

ParentsOf(s, seed, i) ==
  IF i > 1 /\ (s \in Chains \/ (s \in Partitions /\ i = 2)) THEN {Drawn(seed, i - 1)} ELSE {}

EventOf(s, seed, i) ==
  [id |-> Drawn(seed, i), kind |-> KindOf(s, i), task |-> TaskOf(s, i),
   node |-> IF KindOf(s, i) = "Create" THEN None ELSE Author(s, i),
   parents |-> ParentsOf(s, seed, i)]

StagedAt(s, i) == IF s \in Chains THEN 4 * i - 3
                  ELSE IF s \in Partitions
                  THEN IF i = 3 THEN 12 + IdleCalls(s) ELSE 4 * i - 2
                  ELSE i + 3

SentAt(s, i) == IF s \in Chains THEN 4 * i - 2
                ELSE IF s \in Partitions
                THEN IF i = 3 THEN 13 + IdleCalls(s) ELSE 4 * i - 1
                ELSE 3 * i + 7

\* Node 2 gets what it missed with the backlog, and delivered with the last round.
PushedAt(s, i, n) == IF s \in Partitions /\ n = 2 /\ i < 3 THEN 11 + IdleCalls(s) ELSE SentAt(s, i)

ArrivedAt(s, i, n) == IF s \in Partitions /\ n = 2 THEN 14 + IdleCalls(s) ELSE SentAt(s, i) + 1

\* The calls that cut a node off and heal it, 0 if there are none.
CutAt(s, n) == IF s \in Partitions THEN IF n = 2 THEN 1 ELSE 0
               ELSE IF s \in Chains THEN 0 ELSE n + 1
HealedAt(s, n) == IF s \in Partitions THEN IF n = 2 THEN 10 + IdleCalls(s) ELSE 0
                  ELSE IF s \in Chains THEN 0 ELSE n + 7

Rounds(s) == 3 + IdleRounds(s)
SnapshotAt(s, r) == IF s \in Chains THEN 4 * r
                    ELSE IF s \in Partitions
                    THEN IF r = 1 THEN 5
                         ELSE IF r = Rounds(s) THEN 15 + IdleCalls(s) ELSE 2 * r + 5
                    ELSE 3 * r + 9

Copies(s, i) == IF s \in Partitions /\ i < 3 THEN 2 ELSE 3
CopiesBy(s, i, p) == IF p > SentAt(s, i) THEN Copies(s, i) ELSE 0

\* How many events a node has, and how many copies have been delivered, at a round.
Has(s, r, n) ==
  IF s \in Partitions THEN IF r = Rounds(s) THEN 3 ELSE IF n = 2 THEN 0 ELSE IF r = 1 THEN 1 ELSE 2
  ELSE r
Delivered(s, r) ==
  IF s \in Partitions THEN IF r = Rounds(s) THEN 7 ELSE IF r = 1 THEN 2 ELSE 4
  ELSE 3 * r

\* Before call p of the script:
Staged(s, p) == {i \in Number : StagedAt(s, i) < p}
Unsent(s, p, n) == {i \in Number : Author(s, i) = n /\ StagedAt(s, i) < p /\ p =< SentAt(s, i)}
OnTheWay(s, p, n) == {i \in Number : PushedAt(s, i, n) < p /\ p =< ArrivedAt(s, i, n)}
Arrived(s, p, n) == {i \in Number : ArrivedAt(s, i, n) < p}
CutOff(s, p) == {n \in Node : CutAt(s, n) < p /\ p =< HealedAt(s, n)}
CopiesSent(s, p) == CopiesBy(s, 1, p) + CopiesBy(s, 2, p) + CopiesBy(s, 3, p)
RoundsTaken(s, p) == {r \in 1 .. Rounds(s) : SnapshotAt(s, r) < p}

EventsOf(s, seed, I) == {EventOf(s, seed, i) : i \in I}

\* What a round records, before it is stamped.
Unstamped(s, r) == [Recorded(s)[r] EXCEPT !.convergence_round = None]

\* Who gets a copy of the message.
Receivers(s, i) == IF s \in Partitions /\ i < 3 THEN {0, 1} ELSE {0, 1, 2}

\* What call p leaves as it is.
StagingKept(s, p) == /\ Staged(s, p + 1) = Staged(s, p)
                     /\ \A n \in Node : Unsent(s, p + 1, n) = Unsent(s, p, n)
TravelKept(s, p) == \A n \in Node : /\ OnTheWay(s, p + 1, n) = OnTheWay(s, p, n)
                                    /\ Arrived(s, p + 1, n) = Arrived(s, p, n)
LinksKept(s, p) == CutOff(s, p + 1) = CutOff(s, p)
CopiesKept(s, p) == CopiesSent(s, p + 1) = CopiesSent(s, p)
RoundsKept(s, p) == RoundsTaken(s, p + 1) = RoundsTaken(s, p)

\* Call p does not come right after a broadcast.
NothingJustSent(s, p) == \A i \in Number : SentAt(s, i) + 1 # p

\* The calls that a script makes at these times.
StagingCall(s, seed, i) ==
  IF s = "auto_frontier_reordered" THEN Automatic(Author(s, i), KindOf(s, i), TaskOf(s, i))
  ELSE Manual(Author(s, i), KindOf(s, i), TaskOf(s, i), ParentsOf(s, seed, i))

SendingCall(s, i) ==
  On(IF s \in Partitions /\ i < 3 THEN "broadcast_with_failures" ELSE "broadcast", Author(s, i))

DeliveryCall(s) ==
  Do(IF s = "auto_frontier_reordered" THEN "deliver_all_shuffled" ELSE "deliver_all")

\* The script makes them.
Follows(script, s, seed) ==
  /\ Len(script) = SnapshotAt(s, Rounds(s)) /\ DOMAIN script = 1 .. SnapshotAt(s, Rounds(s))
  /\ \A i \in Number : /\ script[StagedAt(s, i)] = StagingCall(s, seed, i)
                       /\ script[SentAt(s, i)] = SendingCall(s, i)
  /\ \A n \in Node : CutAt(s, n) # 0 => /\ script[CutAt(s, n)] = On("partition", n)
                                        /\ script[HealedAt(s, n)] = On("heal", n)
  /\ s \in Partitions => script[11 + IdleCalls(s)] = Backlog(0, 2)
  /\ \A r \in 1 .. Rounds(s) : /\ script[SnapshotAt(s, r) - 1] = DeliveryCall(s)
                               /\ script[SnapshotAt(s, r)] = Do("snapshot")

-----------------------------------------------------------------------------
(* The invariant --------------------------------------------------------- *)

Running == ~Finished /\ pc > 0

\* What is on its way to a node: in its inbox or in its queue.
Coming(n) == inbox[n] \union Carried(message_queues[n])

\* The events staged so far, the outboxes and the partitions before call p.
NodesAt(s, seed, p) ==
  /\ History = EventsOf(s, seed, Staged(s, p))
  /\ \A i \in Number : Staged(s, p) = 1 .. i - 1 => next = Drawn(seed, i)
  /\ \A n \in Node : outbox[n] = EventsOf(s, seed, Unsent(s, p, n))
  /\ partitioned = CutOff(s, p)
  /\ sent = CopiesSent(s, p)

\* The graphs and what is on its way before call p, with no delivery running. A
\* message waits in a queue only from its broadcast to the delivery that follows.
GraphsAt(s, seed, p) ==
  \A n \in Node : /\ graph[n] = EventsOf(s, seed, Arrived(s, p, n))
                  /\ Coming(n) = EventsOf(s, seed, OnTheWay(s, p, n))
                  /\ NothingJustSent(s, p) => message_queues[n] = <<>>

\* During a delivery: it brings everything that is on its way.
DeliveryAt(s, seed, p) ==
  \A n \in Node : /\ graph[n] \union Coming(n) = EventsOf(s, seed, Arrived(s, p, n))
                  /\ OnTheWay(s, p, n) = {}

\* The rounds recorded before call p.
SnapshotsAt(s, p) ==
  /\ snapshots \in Seq({Unstamped(s, r) : r \in 1 .. Rounds(s)})
  /\ DOMAIN snapshots = RoundsTaken(s, p)
  /\ \A r \in DOMAIN snapshots : snapshots[r] = Unstamped(s, r)

OnTime ==
  Running => LET s == ThisRun.scenario
                 seed == ThisRun.seed
             IN  /\ pc \in 1 .. Len(ThisScript) + 1
                 /\ NodesAt(s, seed, pc)
                 /\ running = "none" => GraphsAt(s, seed, pc)
                 /\ running # "none" => DeliveryAt(s, seed, pc)
                 /\ SnapshotsAt(s, pc)

\* The shuffle never finds more than one message in a queue.
ShortQueues == \A n \in Node : Len(message_queues[n]) =< 1

\* So the generator is as it was made.
RngUntouched == Running => rng = New(Binary(ThisRun.seed))

\* Between runs nothing is left over but the results.
BetweenRuns == /\ pc \in Nat
               /\ Finished => pc = 0
               /\ pc = 0 => running = "none" /\ partitioned = {} /\ ConvergenceLasts
               /\ running # "deliver" => delivered = 0

\* The summary of a run, whatever its seed did.
SummaryOf(run) == Summary(run, Recorded(run.scenario)[Rounds(run.scenario)])

SummariesOnTime ==
  /\ job \in 1 .. Len(Jobs) + 1
  /\ summaries \in Seq({SummaryOf(Jobs[j]) : j \in DOMAIN Jobs})
  /\ DOMAIN summaries = {k \in 1 .. 5 * LastSeed : k + 5 < job}
  /\ \A k \in DOMAIN summaries : summaries[k] = SummaryOf(Jobs[k + 5])

ProgramInv == /\ Held /\ Accounted /\ DrawnInQueue
              /\ OnTime /\ ShortQueues /\ RngUntouched /\ BetweenRuns /\ SummariesOnTime

-----------------------------------------------------------------------------
(* Runs and scripts ------------------------------------------------------ *)

\* A function on 1 .. n is a sequence.
LEMMA AsSequence ==
  ASSUME NEW T, NEW n \in Nat, NEW f \in [1 .. n -> T]
  PROVE  f \in Seq(T) /\ Len(f) = n
OBVIOUS

\* The runs are of the five scenarios, with seeds in range.
LEMMA RunsAre ==
  /\ Len(Jobs) = 5 + 5 * LastSeed /\ DOMAIN Jobs = 1 .. 5 + 5 * LastSeed
  /\ \A j \in 1 .. 5 : Jobs[j] = [scenario |-> Scenario[j], seed |-> 1, multi |-> FALSE]
  /\ \A k \in 1 .. 5 * LastSeed :
       Jobs[k + 5] = [scenario |-> Scenario[(k - 1) \div LastSeed + 1],
                      seed |-> ((k - 1) % LastSeed) + 1, multi |-> TRUE]
  /\ \A j \in DOMAIN Jobs : Jobs[j].scenario \in Names /\ Jobs[j].seed \in 1 .. LastSeed
<1> DEFINE T == [scenario : Names, seed : 1 .. LastSeed, multi : BOOLEAN]
           M == 5 * LastSeed
<1>1. LastSeed \in Nat \ {0} /\ M \in Nat
  BY ProgramAssumption
<1>2. \A k \in 1 .. M : /\ (k - 1) \div LastSeed + 1 \in 1 .. 5
                                   /\ ((k - 1) % LastSeed) + 1 \in 1 .. LastSeed
  BY <1>1
<1>3. \A j \in 1 .. 5 : Scenario[j] \in Names
  BY DEF Scenario, Names, Chains, Partitions
<1>4. SingleRuns \in [1 .. 5 -> T] /\ MultiRuns \in [1 .. M -> T]
  BY <1>1, <1>2, <1>3 DEF SingleRuns, MultiRuns
<1> HIDE DEF T, M
<1>5. /\ SingleRuns \in Seq(T) /\ Len(SingleRuns) = 5
      /\ MultiRuns \in Seq(T) /\ Len(MultiRuns) = M
  BY <1>1, <1>4, AsSequence
<1>6. /\ SingleRuns \o MultiRuns \in Seq(T)
      /\ Len(SingleRuns \o MultiRuns) = Len(SingleRuns) + Len(MultiRuns)
      /\ \A k \in 1 .. Len(SingleRuns) : (SingleRuns \o MultiRuns)[k] = SingleRuns[k]
      /\ \A k \in 1 .. Len(MultiRuns) : (SingleRuns \o MultiRuns)[k + Len(SingleRuns)] = MultiRuns[k]
  <2> SUFFICES ASSUME NEW a \in Seq(T), NEW b \in Seq(T)
               PROVE  /\ a \o b \in Seq(T) /\ Len(a \o b) = Len(a) + Len(b)
                      /\ \A k \in 1 .. Len(a) : (a \o b)[k] = a[k]
                      /\ \A k \in 1 .. Len(b) : (a \o b)[k + Len(a)] = b[k]
    BY <1>5, Zenon
  <2> QED
    OBVIOUS
<1>7. /\ Jobs \in Seq(T) /\ Len(Jobs) = 5 + M
      /\ \A j \in 1 .. 5 : Jobs[j] = SingleRuns[j]
      /\ \A k \in 1 .. M : Jobs[k + 5] = MultiRuns[k]
  BY <1>1, <1>5, <1>6 DEF Jobs
<1>8. DOMAIN Jobs = 1 .. 5 + M /\ \A j \in 1 .. 5 + M : Jobs[j] \in T
  BY <1>1, <1>7
<1> QED
  BY <1>7, <1>8, <1>1 DEF SingleRuns, MultiRuns, T, M

\* The script of `no_partition`.
LEMMA NoPartitionFollows ==
  ASSUME NEW seed \in Nat PROVE Follows(NoPartition(seed), "no_partition", seed)
<1> DEFINE script == NoPartition(seed)
<1>1. /\ Len(script) = 12 /\ DOMAIN script = 1 .. 12
      /\ script[1] = Manual(0, "Create", 1, {}) /\ script[2] = On("broadcast", 0)
      /\ script[3] = Do("deliver_all") /\ script[4] = Do("snapshot")
      /\ script[5] = Manual(1, "Claim", 1, {Drawn(seed, 1)})
      /\ script[6] = On("broadcast", 1) /\ script[7] = Do("deliver_all")
      /\ script[8] = Do("snapshot")
      /\ script[9] = Manual(2, "Complete", 1, {Drawn(seed, 2)})
      /\ script[10] = On("broadcast", 2) /\ script[11] = Do("deliver_all")
      /\ script[12] = Do("snapshot")
  BY DEF NoPartition, Round
<1> HIDE DEF script
<1>2. ASSUME NEW i \in Number
      PROVE  /\ script[4 * i - 3] = StagingCall("no_partition", seed, i)
             /\ script[4 * i - 2] = SendingCall("no_partition", i)
  BY <1>1 DEF Number, StagingCall, SendingCall, Author, KindOf, TaskOf, ParentsOf, Drawn,
              Chains, Partitions
<1>3. ASSUME NEW r \in 1 .. 3
      PROVE  script[4 * r - 1] = DeliveryCall("no_partition") /\ script[4 * r] = Do("snapshot")
  BY <1>1 DEF DeliveryCall
<1> QED
  BY <1>1, <1>2, <1>3, ProgramAssumption
  DEF script, Follows, StagedAt, SentAt, CutAt, HealedAt, SnapshotAt,
     Rounds, IdleRounds, IdleCalls, Chains, Partitions, Number

\* The script of `auto_frontier_reordered`.
LEMMA AutoFrontierFollows ==
  ASSUME NEW seed \in Nat PROVE Follows(AutoFrontierReordered(seed), "auto_frontier_reordered", seed)
<1> DEFINE script == AutoFrontierReordered(seed)
<1>1. /\ Len(script) = 12 /\ DOMAIN script = 1 .. 12
      /\ script[1] = Automatic(0, "Create", 1) /\ script[2] = On("broadcast", 0)
      /\ script[3] = Do("deliver_all_shuffled") /\ script[4] = Do("snapshot")
      /\ script[5] = Automatic(1, "Claim", 1) /\ script[6] = On("broadcast", 1)
      /\ script[7] = Do("deliver_all_shuffled") /\ script[8] = Do("snapshot")
      /\ script[9] = Automatic(2, "Complete", 1) /\ script[10] = On("broadcast", 2)
      /\ script[11] = Do("deliver_all_shuffled") /\ script[12] = Do("snapshot")
  BY DEF AutoFrontierReordered, ShuffledRound
<1> HIDE DEF script
<1>2. ASSUME NEW i \in Number
      PROVE  /\ script[4 * i - 3] = StagingCall("auto_frontier_reordered", seed, i)
             /\ script[4 * i - 2] = SendingCall("auto_frontier_reordered", i)
  BY <1>1 DEF Number, StagingCall, SendingCall, Author, KindOf, TaskOf, ParentsOf, Drawn,
              Chains, Partitions
<1>3. ASSUME NEW r \in 1 .. 3
      PROVE  script[4 * r - 1] = DeliveryCall("auto_frontier_reordered") /\ script[4 * r] = Do("snapshot")
  BY <1>1 DEF DeliveryCall
<1> QED
  BY <1>1, <1>2, <1>3, ProgramAssumption
  DEF script, Follows, StagedAt, SentAt, CutAt, HealedAt, SnapshotAt,
     Rounds, IdleRounds, IdleCalls, Chains, Partitions, Number

\* The script of `high_contention`.
LEMMA HighContentionFollows ==
  ASSUME NEW seed \in Nat PROVE Follows(HighContention(seed), "high_contention", seed)
<1> DEFINE script == HighContention(seed)
<1>1. /\ Len(script) = 18 /\ DOMAIN script = 1 .. 18
      /\ script[1] = On("partition", 0) /\ script[2] = On("partition", 1)
      /\ script[3] = On("partition", 2) /\ script[4] = Manual(0, "Create", 1, {})
      /\ script[5] = Manual(1, "Claim", 1, {}) /\ script[6] = Manual(2, "Claim", 1, {})
      /\ script[7] = On("heal", 0) /\ script[8] = On("heal", 1)
      /\ script[9] = On("heal", 2) /\ script[10] = On("broadcast", 0)
      /\ script[11] = Do("deliver_all") /\ script[12] = Do("snapshot")
      /\ script[13] = On("broadcast", 1) /\ script[14] = Do("deliver_all")
      /\ script[15] = Do("snapshot") /\ script[16] = On("broadcast", 2)
      /\ script[17] = Do("deliver_all") /\ script[18] = Do("snapshot")
  BY DEF HighContention, Round
<1> HIDE DEF script
<1>2. ASSUME NEW i \in Number
      PROVE  /\ script[i + 3] = StagingCall("high_contention", seed, i)
             /\ script[3 * i + 7] = SendingCall("high_contention", i)
  BY <1>1 DEF Number, StagingCall, SendingCall, Author, KindOf, TaskOf, ParentsOf,
              Chains, Partitions
<1>3. ASSUME NEW n \in Node
      PROVE  script[n + 1] = On("partition", n) /\ script[n + 7] = On("heal", n)
  BY <1>1, ProgramAssumption
<1>4. ASSUME NEW r \in 1 .. 3
      PROVE  /\ script[3 * r + 8] = DeliveryCall("high_contention")
             /\ script[3 * r + 9] = Do("snapshot")
  BY <1>1 DEF DeliveryCall
<1> QED
  BY <1>1, <1>2, <1>3, <1>4, ProgramAssumption
  DEF script, Follows, StagedAt, SentAt, CutAt, HealedAt, SnapshotAt,
     Rounds, IdleRounds, IdleCalls, Chains, Partitions, Number

\* The script of `short_partition`.
LEMMA ShortPartitionFollows ==
  ASSUME NEW seed \in Nat PROVE Follows(ShortPartition(seed), "short_partition", seed)
<1> DEFINE script == ShortPartition(seed)
<1>1. /\ Len(script) = 15 /\ DOMAIN script = 1 .. 15
      /\ script[1] = On("partition", 2) /\ script[2] = Manual(0, "Create", 1, {})
      /\ script[3] = On("broadcast_with_failures", 0) /\ script[4] = Do("deliver_all")
      /\ script[5] = Do("snapshot") /\ script[6] = Manual(1, "Claim", 1, {Drawn(seed, 1)})
      /\ script[7] = On("broadcast_with_failures", 1) /\ script[8] = Do("deliver_all")
      /\ script[9] = Do("snapshot") /\ script[10] = On("heal", 2)
      /\ script[11] = Backlog(0, 2) /\ script[12] = Manual(0, "Create", 2, {})
      /\ script[13] = On("broadcast", 0) /\ script[14] = Do("deliver_all")
      /\ script[15] = Do("snapshot")
  BY DEF ShortPartition, WithoutNode2, Healing, Round
<1> HIDE DEF script
<1>2. ASSUME NEW i \in Number
      PROVE  /\ script[IF i = 3 THEN 12 ELSE 4 * i - 2] = StagingCall("short_partition", seed, i)
             /\ script[IF i = 3 THEN 13 ELSE 4 * i - 1] = SendingCall("short_partition", i)
  BY <1>1 DEF Number, StagingCall, SendingCall, Author, KindOf, TaskOf, ParentsOf, Drawn,
              Chains, Partitions
<1>3. ASSUME NEW r \in 1 .. 3
      PROVE  LET p == IF r = 1 THEN 5 ELSE IF r = 3 THEN 15 ELSE 2 * r + 5
             IN  script[p - 1] = DeliveryCall("short_partition") /\ script[p] = Do("snapshot")
  BY <1>1 DEF DeliveryCall
<1> QED
  BY <1>1, <1>2, <1>3, ProgramAssumption
  DEF script, Follows, StagedAt, SentAt, CutAt, HealedAt, SnapshotAt,
     Rounds, IdleRounds, IdleCalls, Chains, Partitions, Number

\* The script of `long_partition`.
LEMMA LongPartitionFollows ==
  ASSUME NEW seed \in Nat PROVE Follows(LongPartition(seed), "long_partition", seed)
<1> DEFINE script == LongPartition(seed)
<1>1. /\ Len(script) = 21 /\ DOMAIN script = 1 .. 21
      /\ script[1] = On("partition", 2) /\ script[2] = Manual(0, "Create", 1, {})
      /\ script[3] = On("broadcast_with_failures", 0) /\ script[4] = Do("deliver_all")
      /\ script[5] = Do("snapshot") /\ script[6] = Manual(1, "Claim", 1, {Drawn(seed, 1)})
      /\ script[7] = On("broadcast_with_failures", 1) /\ script[8] = Do("deliver_all")
      /\ script[9] = Do("snapshot") /\ script[10] = Do("deliver_all")
      /\ script[11] = Do("snapshot") /\ script[12] = Do("deliver_all")
      /\ script[13] = Do("snapshot") /\ script[14] = Do("deliver_all")
      /\ script[15] = Do("snapshot") /\ script[16] = On("heal", 2)
      /\ script[17] = Backlog(0, 2) /\ script[18] = Manual(0, "Create", 2, {})
      /\ script[19] = On("broadcast", 0) /\ script[20] = Do("deliver_all")
      /\ script[21] = Do("snapshot")
  BY DEF LongPartition, WithoutNode2, Healing, Round
<1> HIDE DEF script
<1>2. ASSUME NEW i \in Number
      PROVE  /\ script[IF i = 3 THEN 18 ELSE 4 * i - 2] = StagingCall("long_partition", seed, i)
             /\ script[IF i = 3 THEN 19 ELSE 4 * i - 1] = SendingCall("long_partition", i)
  BY <1>1 DEF Number, StagingCall, SendingCall, Author, KindOf, TaskOf, ParentsOf, Drawn,
              Chains, Partitions
<1>3. ASSUME NEW r \in 1 .. 6
      PROVE  LET p == IF r = 1 THEN 5 ELSE IF r = 6 THEN 21 ELSE 2 * r + 5
             IN  script[p - 1] = DeliveryCall("long_partition") /\ script[p] = Do("snapshot")
  BY <1>1 DEF DeliveryCall
<1> QED
  BY <1>1, <1>2, <1>3, ProgramAssumption
  DEF script, Follows, StagedAt, SentAt, CutAt, HealedAt, SnapshotAt,
     Rounds, IdleRounds, IdleCalls, Chains, Partitions, Number

\* Every run follows its timetable.
LEMMA ScriptsFollow ==
  ASSUME NEW s \in Names, NEW seed \in Nat PROVE Follows(Script(s, seed), s, seed)
BY NoPartitionFollows, AutoFrontierFollows, HighContentionFollows, ShortPartitionFollows,
   LongPartitionFollows
DEF Script, Names, Chains, Partitions

-----------------------------------------------------------------------------
(* What the calls change in the timetable. ------------------------------- *)

\* Every call of a script is one of these.
LEMMA MomentsAre ==
  ASSUME NEW s \in Names, NEW p \in 1 .. SnapshotAt(s, Rounds(s))
  PROVE  \/ \E i \in Number : p = StagedAt(s, i) \/ p = SentAt(s, i)
         \/ \E n \in Node : p = CutAt(s, n) \/ p = HealedAt(s, n)
         \/ s \in Partitions /\ p = 11 + IdleCalls(s)
         \/ \E r \in 1 .. Rounds(s) : p = SnapshotAt(s, r) - 1 \/ p = SnapshotAt(s, r)
<1> USE ProgramAssumption
  DEF StagedAt, SentAt, CutAt, HealedAt, SnapshotAt, Rounds, IdleRounds, IdleCalls, Names, Chains,
      Partitions, Number
<1>1. CASE s \in Chains
  BY <1>1
<1>2. CASE s = "high_contention"
  BY <1>2
<1>3. CASE s = "short_partition"
  BY <1>3
<1>4. CASE s = "long_partition"
  BY <1>4
<1> QED
  BY <1>1, <1>2, <1>3, <1>4

\* A staging call puts the next event into its author's outbox, which was empty in
\* the scenarios with automatic parents.
LEMMA StagingTime ==
  ASSUME NEW s \in Names, NEW i \in Number, NEW p, p = StagedAt(s, i)
  PROVE  /\ p \in Nat /\ Author(s, i) \in Node
         /\ Staged(s, p) = 1 .. i - 1 /\ Staged(s, p + 1) = 1 .. i
         /\ \A n \in Node : Unsent(s, p + 1, n) = Unsent(s, p, n)
                                                  \union IF n = Author(s, i) THEN {i} ELSE {}
         /\ s \in Chains => /\ Unsent(s, p, Author(s, i)) = {}
                            /\ Arrived(s, p, Author(s, i)) = 1 .. i - 1
         /\ TravelKept(s, p) /\ LinksKept(s, p) /\ CopiesKept(s, p) /\ RoundsKept(s, p)
         /\ NothingJustSent(s, p)
<1> USE ProgramAssumption
  DEF StagedAt, SentAt, PushedAt, ArrivedAt, CutAt, HealedAt, SnapshotAt, Author, Receivers,
      Staged, Unsent, OnTheWay, Arrived, CutOff, CopiesSent, CopiesBy, Copies, RoundsTaken,
      StagingKept, TravelKept, LinksKept, CopiesKept, RoundsKept, NothingJustSent,
      Rounds, IdleRounds, IdleCalls, Names, Chains, Partitions, Number
<1>1. /\ p \in Nat /\ Author(s, i) \in Node
      /\ Staged(s, p) = 1 .. i - 1 /\ Staged(s, p + 1) = 1 .. i
  OBVIOUS
<1>2. ASSUME NEW n \in Node
      PROVE  Unsent(s, p + 1, n) = Unsent(s, p, n) \union IF n = Author(s, i) THEN {i} ELSE {}
  OBVIOUS
<1>3. ASSUME s \in Chains
      PROVE  Unsent(s, p, Author(s, i)) = {} /\ Arrived(s, p, Author(s, i)) = 1 .. i - 1
  BY <1>3
<1>4. TravelKept(s, p) /\ LinksKept(s, p)
  OBVIOUS
<1>5. CopiesKept(s, p) /\ RoundsKept(s, p) /\ NothingJustSent(s, p)
  OBVIOUS
<1> QED
  BY <1>1, <1>2, <1>3, <1>4, <1>5

\* A broadcast sends the one event of the outbox, and not to a node that is cut off.
LEMMA SendingTime ==
  ASSUME NEW s \in Names, NEW i \in Number, NEW p, p = SentAt(s, i)
  PROVE  /\ p \in Nat /\ Author(s, i) \in Node /\ Author(s, i) \in Receivers(s, i)
         /\ Unsent(s, p, Author(s, i)) = {i}
         /\ Staged(s, p + 1) = Staged(s, p)
         /\ \A n \in Node :
              /\ Unsent(s, p + 1, n) = IF n = Author(s, i) THEN {} ELSE Unsent(s, p, n)
              /\ OnTheWay(s, p + 1, n) = OnTheWay(s, p, n)
                                           \union IF n \in Receivers(s, i) THEN {i} ELSE {}
              /\ Arrived(s, p + 1, n) = Arrived(s, p, n)
         /\ CutOff(s, p) = Node \ Receivers(s, i)
         /\ CopiesSent(s, p + 1) = CopiesSent(s, p) + Copies(s, i)
         /\ LinksKept(s, p) /\ RoundsKept(s, p) /\ NothingJustSent(s, p)
BY ProgramAssumption
DEF StagedAt, SentAt, PushedAt, ArrivedAt, CutAt, HealedAt, SnapshotAt, Author, Receivers,
    Staged, Unsent, OnTheWay, Arrived, CutOff, CopiesSent, CopiesBy, Copies, RoundsTaken,
    StagingKept, TravelKept, LinksKept, CopiesKept, RoundsKept, NothingJustSent,
    Rounds, IdleRounds, IdleCalls, Names, Chains, Partitions, Number

\* A partition call cuts one more node off.
LEMMA CuttingTime ==
  ASSUME NEW s \in Names, NEW n \in Node, NEW p, p = CutAt(s, n), p # 0
  PROVE  /\ p \in Nat /\ CutOff(s, p + 1) = CutOff(s, p) \union {n}
         /\ StagingKept(s, p) /\ CopiesKept(s, p) /\ RoundsKept(s, p)
         /\ TravelKept(s, p) /\ NothingJustSent(s, p)
BY ProgramAssumption
DEF StagedAt, SentAt, PushedAt, ArrivedAt, CutAt, HealedAt, SnapshotAt, Author, Receivers,
    Staged, Unsent, OnTheWay, Arrived, CutOff, CopiesSent, CopiesBy, Copies, RoundsTaken,
    StagingKept, TravelKept, LinksKept, CopiesKept, RoundsKept, NothingJustSent,
    Rounds, IdleRounds, IdleCalls, Names, Chains, Partitions, Number

\* A heal call takes a node back.
LEMMA HealingTime ==
  ASSUME NEW s \in Names, NEW n \in Node, NEW p, p = HealedAt(s, n), p # 0
  PROVE  /\ p \in Nat /\ CutAt(s, n) # 0 /\ CutOff(s, p + 1) = CutOff(s, p) \ {n}
         /\ StagingKept(s, p) /\ CopiesKept(s, p) /\ RoundsKept(s, p)
         /\ TravelKept(s, p) /\ NothingJustSent(s, p)
BY ProgramAssumption
DEF StagedAt, SentAt, PushedAt, ArrivedAt, CutAt, HealedAt, SnapshotAt, Author, Receivers,
    Staged, Unsent, OnTheWay, Arrived, CutOff, CopiesSent, CopiesBy, Copies, RoundsTaken,
    StagingKept, TravelKept, LinksKept, CopiesKept, RoundsKept, NothingJustSent,
    Rounds, IdleRounds, IdleCalls, Names, Chains, Partitions, Number

\* The backlog sends node 2 what node 0 has.
LEMMA BacklogTime ==
  ASSUME NEW s \in Names, NEW p, s \in Partitions, p = 11 + IdleCalls(s)
  PROVE  /\ p \in Nat
         /\ \A n \in Node :
              /\ OnTheWay(s, p + 1, n) = OnTheWay(s, p, n) \union IF n = 2 THEN Arrived(s, p, 0) ELSE {}
              /\ Arrived(s, p + 1, n) = Arrived(s, p, n)
         /\ StagingKept(s, p) /\ CopiesKept(s, p) /\ RoundsKept(s, p)
         /\ LinksKept(s, p) /\ NothingJustSent(s, p)
BY ProgramAssumption
DEF StagedAt, SentAt, PushedAt, ArrivedAt, CutAt, HealedAt, SnapshotAt, Author, Receivers,
    Staged, Unsent, OnTheWay, Arrived, CutOff, CopiesSent, CopiesBy, Copies, RoundsTaken,
    StagingKept, TravelKept, LinksKept, CopiesKept, RoundsKept, NothingJustSent,
    Rounds, IdleRounds, IdleCalls, Names, Chains, Partitions, Number

\* A delivery brings what is on its way.
LEMMA DeliveryTime ==
  ASSUME NEW s \in Names, NEW r \in 1 .. Rounds(s), NEW p, p = SnapshotAt(s, r) - 1
  PROVE  /\ p \in Nat
         /\ \A n \in Node : /\ OnTheWay(s, p + 1, n) = {}
                            /\ Arrived(s, p + 1, n) = Arrived(s, p, n) \union OnTheWay(s, p, n)
         /\ StagingKept(s, p) /\ CopiesKept(s, p) /\ RoundsKept(s, p)
         /\ LinksKept(s, p)
BY ProgramAssumption
DEF StagedAt, SentAt, PushedAt, ArrivedAt, CutAt, HealedAt, SnapshotAt, Author, Receivers,
    Staged, Unsent, OnTheWay, Arrived, CutOff, CopiesSent, CopiesBy, Copies, RoundsTaken,
    StagingKept, TravelKept, LinksKept, CopiesKept, RoundsKept, NothingJustSent,
    Rounds, IdleRounds, IdleCalls, Names, Chains, Partitions, Number

\* A snapshot only looks.
LEMMA SnapshotTime ==
  ASSUME NEW s \in Names, NEW r \in 1 .. Rounds(s), NEW p, p = SnapshotAt(s, r)
  PROVE  /\ p \in Nat /\ RoundsTaken(s, p) = 1 .. r - 1 /\ RoundsTaken(s, p + 1) = 1 .. r
         /\ \A n \in Node : OnTheWay(s, p, n) = {}
         /\ StagingKept(s, p) /\ TravelKept(s, p) /\ LinksKept(s, p) /\ CopiesKept(s, p)
         /\ NothingJustSent(s, p)
BY ProgramAssumption
DEF StagedAt, SentAt, PushedAt, ArrivedAt, CutAt, HealedAt, SnapshotAt, Author, Receivers,
    Staged, Unsent, OnTheWay, Arrived, CutOff, CopiesSent, CopiesBy, Copies, RoundsTaken,
    StagingKept, TravelKept, LinksKept, CopiesKept, RoundsKept, NothingJustSent,
    Rounds, IdleRounds, IdleCalls, Names, Chains, Partitions, Number

\* Before the first call there is nothing.
LEMMA StartingTime ==
  ASSUME NEW s \in Names, TRUE
  PROVE  /\ Staged(s, 1) = {} /\ CutOff(s, 1) = {} /\ CopiesSent(s, 1) = 0 /\ RoundsTaken(s, 1) = {}
         /\ \A n \in Node : Unsent(s, 1, n) = {} /\ OnTheWay(s, 1, n) = {} /\ Arrived(s, 1, n) = {}
         /\ SnapshotAt(s, Rounds(s)) \in Nat
BY ProgramAssumption
DEF StagedAt, SentAt, PushedAt, ArrivedAt, CutAt, HealedAt, SnapshotAt, Author, Receivers,
    Staged, Unsent, OnTheWay, Arrived, CutOff, CopiesSent, CopiesBy, Copies, RoundsTaken,
    StagingKept, TravelKept, LinksKept, CopiesKept, RoundsKept, NothingJustSent,
    Rounds, IdleRounds, IdleCalls, Names, Chains, Partitions, Number

\* After the last call every event is everywhere.
LEMMA EndingTime ==
  ASSUME NEW s \in Names, NEW p, p = SnapshotAt(s, Rounds(s)) + 1
  PROVE  /\ Staged(s, p) = Number /\ CutOff(s, p) = {} /\ RoundsTaken(s, p) = 1 .. Rounds(s)
         /\ \A n \in Node : Unsent(s, p, n) = {} /\ OnTheWay(s, p, n) = {} /\ Arrived(s, p, n) = Number
         /\ NothingJustSent(s, p)
BY ProgramAssumption
DEF StagedAt, SentAt, PushedAt, ArrivedAt, CutAt, HealedAt, SnapshotAt, Author, Receivers,
    Staged, Unsent, OnTheWay, Arrived, CutOff, CopiesSent, CopiesBy, Copies, RoundsTaken,
    StagingKept, TravelKept, LinksKept, CopiesKept, RoundsKept, NothingJustSent,
    Rounds, IdleRounds, IdleCalls, Names, Chains, Partitions, Number

\* Nothing has arrived at a node that is cut off.
LEMMA CutOffTime ==
  ASSUME NEW s \in Names, NEW p \in Nat, NEW n \in CutOff(s, p)
  PROVE  Arrived(s, p, n) = {}
BY ProgramAssumption
DEF StagedAt, SentAt, PushedAt, ArrivedAt, CutAt, HealedAt, SnapshotAt, Author, Receivers,
    Staged, Unsent, OnTheWay, Arrived, CutOff, CopiesSent, CopiesBy, Copies, RoundsTaken,
    StagingKept, TravelKept, LinksKept, CopiesKept, RoundsKept, NothingJustSent,
    Rounds, IdleRounds, IdleCalls, Names, Chains, Partitions, Number

-----------------------------------------------------------------------------
(* Events ---------------------------------------------------------------- *)

\* Events of several numbers.
LEMMA EventsUnion ==
  ASSUME NEW s, NEW seed, NEW A, NEW B
  PROVE  EventsOf(s, seed, A \union B) = EventsOf(s, seed, A) \union EventsOf(s, seed, B)
BY DEF EventsOf

\* The event of one number, and of none.
LEMMA EventsOfOne ==
  ASSUME NEW s, NEW seed, NEW i
  PROVE  /\ EventsOf(s, seed, {i}) = {EventOf(s, seed, i)}
         /\ EventsOf(s, seed, {}) = {}
BY DEF EventsOf

\* The ids tell the events of a run apart.
LEMMA EventsDiffer ==
  ASSUME NEW s, NEW seed \in Nat, NEW i \in Nat, NEW j \in Nat, EventOf(s, seed, i) = EventOf(s, seed, j)
  PROVE  i = j
BY DEF EventOf, Drawn

\* What an event is, field by field.
LEMMA EventFields ==
  ASSUME NEW s, NEW seed, NEW i
  PROVE  /\ EventOf(s, seed, i).id = Drawn(seed, i)
         /\ EventOf(s, seed, i).kind = KindOf(s, i)
         /\ EventOf(s, seed, i).task = TaskOf(s, i)
         /\ EventOf(s, seed, i).node = IF KindOf(s, i) = "Create" THEN None ELSE Author(s, i)
         /\ EventOf(s, seed, i).parents = ParentsOf(s, seed, i)
BY DEF EventOf

\* The ids of the events.
LEMMA EventIds ==
  ASSUME NEW s, NEW seed, NEW I
  PROVE  Ids(EventsOf(s, seed, I)) = {Drawn(seed, i) : i \in I}
BY EventFields DEF Ids, EventsOf

\* The frontier of a node that has the chain so far is the last event of it.
LEMMA FrontierOfChain ==
  ASSUME NEW s \in Chains, NEW seed \in Nat, NEW i \in Number, NEW n \in Node,
         graph[n] = EventsOf(s, seed, 1 .. i - 1), outbox[n] = {}
  PROVE  FrontierFor(n, TaskOf(s, i)) = ParentsOf(s, seed, i)
<1> DEFINE E(k) == EventOf(s, seed, k)
           G == {E(k) : k \in 1 .. i - 1}
<1>1. Known(n) = G
  BY DEF Known, InsertAll, EventsOf
<1>2. \A k \in 1 .. i - 1 : /\ E(k).id = seed + k - 1 /\ E(k).task = 1
                            /\ E(k).parents = IF k = 1 THEN {} ELSE {seed + k - 2}
  <2> SUFFICES ASSUME NEW k \in 1 .. i - 1
               PROVE  /\ E(k).id = seed + k - 1 /\ E(k).task = 1
                      /\ E(k).parents = IF k = 1 THEN {} ELSE {seed + k - 2}
    OBVIOUS
  <2>1. /\ E(k).id = Drawn(seed, k) /\ E(k).task = TaskOf(s, k)
        /\ E(k).parents = ParentsOf(s, seed, k)
    BY EventFields
  <2>2. k \in 1 .. 2
    BY DEF Number
  <2> QED
    BY <2>1, <2>2 DEF TaskOf, ParentsOf, Drawn, Chains, Partitions
<1>3. TaskOf(s, i) = 1
  BY DEF TaskOf, Chains, Partitions
<1> HIDE DEF E
<1>4. FrontierFor(n, 1) = {e.id : e \in {x \in G : \A child \in G : x.id \notin child.parents}}
  <2>1. ExtractTaskSubgraph(G, 1) = G
    <3>1. \A e \in G : e.task = 1
      <4> SUFFICES ASSUME NEW k \in 1 .. i - 1 PROVE E(k).task = 1
        OBVIOUS
      <4> QED
        BY <1>2
    <3> HIDE DEF G
    <3> QED
      BY <3>1 DEF ExtractTaskSubgraph
  <2> QED
    BY <1>1, <2>1 DEF FrontierFor
<1>6. CASE i = 1
  BY <1>4, <1>3, <1>6 DEF ParentsOf
<1>7. CASE i = 2
  <2>1. G = {E(1)} /\ E(1).id = seed /\ E(1).parents = {}
    BY <1>2, <1>7
  <2> QED
    BY <1>4, <1>3, <1>7, <2>1 DEF ParentsOf, Drawn
<1>8. CASE i = 3
  <2>1. G = {E(1), E(2)}
    BY <1>8
  <2>2. E(1).id = seed /\ E(1).parents = {} /\ E(2).id = seed + 1 /\ E(2).parents = {seed}
    BY <1>2, <1>8
  <2> HIDE DEF G
  <2>3. {x \in G : \A child \in G : x.id \notin child.parents} = {E(2)}
    <3>1. E(2) \in {x \in G : \A child \in G : x.id \notin child.parents}
      BY <2>1, <2>2
    <3>2. E(1) \notin {x \in G : \A child \in G : x.id \notin child.parents}
      BY <2>1, <2>2
    <3> QED
      BY <2>1, <3>1, <3>2
  <2> QED
    BY <1>4, <1>3, <1>8, <2>2, <2>3 DEF ParentsOf, Drawn
<1> QED
  BY <1>6, <1>7, <1>8 DEF Number

-----------------------------------------------------------------------------
(* The calls keep to the timetable. -------------------------------------- *)

\* A staging call adds the next event of the timetable.
LEMMA StagingOnTime ==
  ASSUME NEW s \in Names, NEW seed \in Nat, NEW i \in Number, NEW p, p = StagedAt(s, i),
         Held, NodesAt(s, seed, p), GraphsAt(s, seed, p),
         Stage(Author(s, i), KindOf(s, i), TaskOf(s, i), ParentsOf(s, seed, i)),
         UNCHANGED <<message_queues, partitioned, sent>>
  PROVE  NodesAt(s, seed, p + 1)' /\ GraphsAt(s, seed, p + 1)'
<1> DEFINE n == Author(s, i)
           e == EventOf(s, seed, i)
<1>1. /\ Staged(s, p) = 1 .. i - 1 /\ Staged(s, p + 1) = 1 .. i /\ n \in Node
      /\ \A m \in Node : /\ Unsent(s, p + 1, m) = Unsent(s, p, m) \union IF m = n THEN {i} ELSE {}
                         /\ OnTheWay(s, p + 1, m) = OnTheWay(s, p, m)
                         /\ Arrived(s, p + 1, m) = Arrived(s, p, m)
      /\ CutOff(s, p + 1) = CutOff(s, p) /\ CopiesSent(s, p + 1) = CopiesSent(s, p)
      /\ NothingJustSent(s, p)
  BY StagingTime DEF TravelKept, LinksKept, CopiesKept
<1>2. next = Drawn(seed, i) /\ i \in 1 .. 3
  BY <1>1 DEF NodesAt, Number
<1>3. NewEvent(n, KindOf(s, i), TaskOf(s, i), ParentsOf(s, seed, i)) = e
  BY <1>2 DEF NewEvent, EventOf
<1>4. /\ outbox' = [outbox EXCEPT ![n] = @ \union {e}]
      /\ issued' = issued \union {[event |-> e, by |-> n, past |-> Past(e.parents)]}
      /\ UNCHANGED <<graph, inbox>> /\ next' = next + 1
  BY <1>3 DEF Stage, Push
<1>5. EventsOf(s, seed, {i}) = {e} /\ EventsOf(s, seed, {}) = {}
  BY EventsOfOne
<1> HIDE DEF e, n
<1>6. History' = EventsOf(s, seed, Staged(s, p + 1))
  <2>1. History' = History \union {e}
    BY <1>4, HistoryGrows
  <2>2. 1 .. i = (1 .. i - 1) \union {i}
    BY <1>2
  <2>3. EventsOf(s, seed, (1 .. i - 1) \union {i})
          = EventsOf(s, seed, 1 .. i - 1) \union EventsOf(s, seed, {i})
    BY DEF EventsOf
  <2> QED
    BY <1>1, <1>5, <2>1, <2>2, <2>3 DEF NodesAt
<1>7. ASSUME NEW j \in Number, Staged(s, p + 1) = 1 .. j - 1 PROVE next' = Drawn(seed, j)
  <2>1. j = i + 1
    BY <1>1, <1>2, <1>7 DEF Number
  <2> QED
    BY <1>2, <1>4, <2>1 DEF Drawn
<1>8. ASSUME NEW m \in Node PROVE outbox'[m] = EventsOf(s, seed, Unsent(s, p + 1, m))
  <2>1. outbox'[m] = outbox[m] \union IF m = n THEN {e} ELSE {}
    BY <1>4 DEF Held, Inv, TypeOK, NodeTypeOK
  <2>2. EventsOf(s, seed, Unsent(s, p, m) \union {i}) = outbox[m] \union {e}
    BY <1>5, EventsUnion DEF NodesAt
  <2>3. CASE m = n
    BY <1>1, <2>1, <2>2, <2>3
  <2>4. CASE m # n
    <3>1. Unsent(s, p + 1, m) = Unsent(s, p, m)
      BY <1>1, <2>4
    <3> QED
      BY <2>1, <2>4, <3>1 DEF NodesAt
  <2> QED
    BY <2>3, <2>4
<1>9. NodesAt(s, seed, p + 1)'
  BY <1>1, <1>6, <1>7, <1>8 DEF NodesAt
<1>10. GraphsAt(s, seed, p + 1)'
  BY <1>1, <1>4 DEF GraphsAt, Coming
<1> QED
  BY <1>9, <1>10

\* How many copies a broadcast makes.
LEMMA ReceiversCounted ==
  ASSUME NEW s, NEW i
  PROVE  Cardinality(Receivers(s, i)) = Copies(s, i) /\ IsFiniteSet(Receivers(s, i))
<1>1. IsFiniteSet({}) /\ Cardinality({}) = 0
  BY FS_EmptySet
<1>2. IsFiniteSet({0}) /\ Cardinality({0}) = 1
  BY FS_Singleton
<1>3. IsFiniteSet({0} \union {1}) /\ Cardinality({0} \union {1}) = 2
  BY <1>2, FS_AddElement
<1>4. IsFiniteSet({0, 1} \union {2}) /\ Cardinality({0, 1} \union {2}) = 3
  <2>1. {0} \union {1} = {0, 1}
    OBVIOUS
  <2> QED
    BY <1>3, <2>1, FS_AddElement
<1>5. {0} \union {1} = {0, 1} /\ {0, 1} \union {2} = {0, 1, 2}
  OBVIOUS
<1> QED
  BY <1>3, <1>4, <1>5 DEF Receivers, Copies

\* A broadcast pushes the event of the timetable, alone in its queue.
LEMMA SendingOnTime ==
  ASSUME NEW s \in Names, NEW seed \in Nat, NEW i \in Number, NEW p, p = SentAt(s, i),
         Held, NodesAt(s, seed, p), GraphsAt(s, seed, p), Send(Author(s, i), Receivers(s, i))
  PROVE  NodesAt(s, seed, p + 1)' /\ GraphsAt(s, seed, p + 1)' /\ ShortQueues'
<1> DEFINE a == Author(s, i)
           e == EventOf(s, seed, i)
           to == Receivers(s, i)
<1>1. /\ a \in Node /\ Unsent(s, p, a) = {i} /\ Staged(s, p + 1) = Staged(s, p)
      /\ \A n \in Node : /\ Unsent(s, p + 1, n) = IF n = a THEN {} ELSE Unsent(s, p, n)
                         /\ OnTheWay(s, p + 1, n)
                              = OnTheWay(s, p, n) \union IF n \in to THEN {i} ELSE {}
                         /\ Arrived(s, p + 1, n) = Arrived(s, p, n)
      /\ CutOff(s, p + 1) = CutOff(s, p)
      /\ CopiesSent(s, p + 1) = CopiesSent(s, p) + Copies(s, i)
      /\ NothingJustSent(s, p)
  BY SendingTime DEF LinksKept
<1>2. EventsOf(s, seed, {i}) = {e} /\ EventsOf(s, seed, {}) = {}
  BY EventsOfOne
<1> HIDE DEF a, e, to
<1>3. outbox[a] = {e} /\ {e} \in Message
  <2>1. outbox[a] = {e}
    BY <1>1, <1>2 DEF NodesAt
  <2>2. outbox[a] \in SUBSET Event
    BY <1>1 DEF Held, Inv, TypeOK, NodeTypeOK
  <2> QED
    BY <2>1, <2>2 DEF Message
<1>4. /\ outbox' = [outbox EXCEPT ![a] = {}]
      /\ message_queues' = [n \in Node |-> IF n \in to THEN Append(message_queues[n], {e})
                                           ELSE message_queues[n]]
      /\ sent' = sent + Cardinality(to)
      /\ UNCHANGED <<graph, inbox, next, issued, partitioned>>
  BY <1>3 DEF Send, EmptyOutbox, a, to
<1>5. \A n \in Node : message_queues[n] = <<>>
  BY <1>1 DEF GraphsAt
<1>6. ASSUME NEW n \in Node
      PROVE  /\ Coming(n)' = EventsOf(s, seed, OnTheWay(s, p + 1, n))
             /\ Len(message_queues'[n]) =< 1
  <2>1. CASE n \in to
    <3>1. message_queues'[n] = Append(<<>>, {e})
      BY <1>4, <1>5, <2>1
    <3>2. Carried(message_queues'[n]) = Carried(message_queues[n]) \union {e}
      <4>1. <<>> \in Seq(Message)
        OBVIOUS
      <4>2. Carried(Append(<<>>, {e})) = Carried(<<>>) \union {e}
        BY <1>3, <4>1, CarriedByAppended
      <4> QED
        BY <1>5, <3>1, <4>2
    <3>3. Coming(n)' = Coming(n) \union {e}
      BY <1>4, <3>2 DEF Coming
    <3>4. EventsOf(s, seed, OnTheWay(s, p, n) \union {i}) = Coming(n) \union {e}
      BY <1>2, EventsUnion DEF GraphsAt
    <3>5. Len(Append(<<>>, {e})) = 1
      OBVIOUS
    <3> QED
      BY <1>1, <2>1, <3>1, <3>3, <3>4, <3>5
  <2>2. CASE n \notin to
    <3>1. message_queues'[n] = message_queues[n] /\ OnTheWay(s, p + 1, n) = OnTheWay(s, p, n)
      BY <1>1, <1>4, <2>2
    <3> QED
      BY <1>4, <1>5, <3>1 DEF Coming, GraphsAt
  <2> QED
    BY <2>1, <2>2
<1>7. ~NothingJustSent(s, p + 1)
  BY DEF NothingJustSent
<1>8. GraphsAt(s, seed, p + 1)'
  BY <1>1, <1>4, <1>6, <1>7 DEF GraphsAt
<1>9. \A n \in Node : outbox'[n] = EventsOf(s, seed, Unsent(s, p + 1, n))
  BY <1>1, <1>2, <1>4 DEF NodesAt, Held, Inv, TypeOK, NodeTypeOK
<1>10. NodesAt(s, seed, p + 1)'
  <2>1. History' = History
    BY <1>4 DEF History
  <2>2. sent' = CopiesSent(s, p + 1)
    BY <1>1, <1>4, ReceiversCounted DEF NodesAt, to
  <2> QED
    BY <1>1, <1>4, <1>9, <2>1, <2>2 DEF NodesAt
<1> QED
  BY <1>6, <1>8, <1>10 DEF ShortQueues

\* Cutting a node off and healing it touch nothing but the partitions.
LEMMA LinksOnTime ==
  ASSUME NEW s \in Names, NEW seed \in Nat, NEW n \in Node, NEW p, p # 0,
         NodesAt(s, seed, p), GraphsAt(s, seed, p),
         \/ p = CutAt(s, n) /\ Partition(n)
         \/ p = HealedAt(s, n) /\ Heal(n)
  PROVE  NodesAt(s, seed, p + 1)' /\ GraphsAt(s, seed, p + 1)'
<1>1. /\ StagingKept(s, p) /\ CopiesKept(s, p) /\ TravelKept(s, p) /\ NothingJustSent(s, p)
      /\ partitioned' = CutOff(s, p + 1)
  BY CuttingTime, HealingTime DEF Partition, Heal, NodesAt
<1>2. UNCHANGED <<nodeVars, message_queues, sent>>
  BY DEF Partition, Heal
<1> QED
  BY <1>1, <1>2 DEF NodesAt, GraphsAt, Coming, nodeVars, History, StagingKept, CopiesKept, TravelKept

\* The backlog brings node 2 on its way to what node 0 has.
LEMMA BacklogOnTime ==
  ASSUME NEW s \in Partitions, NEW seed \in Nat, NEW p, p = 11 + IdleCalls(s),
         Held, NodesAt(s, seed, p), GraphsAt(s, seed, p), CatchUp(0, 2)
  PROVE  NodesAt(s, seed, p + 1)' /\ GraphsAt(s, seed, p + 1)'
<1>1. /\ StagingKept(s, p) /\ CopiesKept(s, p) /\ LinksKept(s, p) /\ NothingJustSent(s, p)
      /\ \A n \in Node : /\ OnTheWay(s, p + 1, n)
                              = OnTheWay(s, p, n) \union IF n = 2 THEN Arrived(s, p, 0) ELSE {}
                         /\ Arrived(s, p + 1, n) = Arrived(s, p, n)
  BY BacklogTime DEF Names
<1>2. /\ inbox' = [inbox EXCEPT ![2] = @ \union graph[0]]
      /\ UNCHANGED <<graph, outbox, next, issued, message_queues, partitioned, sent>>
  BY DEF CatchUp
<1>3. 0 \in Node /\ 2 \in Node
  BY ProgramAssumption
<1>4. NodesAt(s, seed, p + 1)'
  BY <1>1, <1>2 DEF NodesAt, History, StagingKept, CopiesKept, LinksKept
<1>5. ASSUME NEW n \in Node PROVE Coming(n)' = EventsOf(s, seed, OnTheWay(s, p + 1, n))
  <2>1. CASE n = 2
    <3>1. Coming(2)' = Coming(2) \union graph[0]
      BY <1>2, <1>3 DEF Coming, Held, Inv, TypeOK, NodeTypeOK
    <3>2. EventsOf(s, seed, OnTheWay(s, p, 2) \union Arrived(s, p, 0)) = Coming(2) \union graph[0]
      BY <1>3, EventsUnion DEF GraphsAt
    <3> QED
      BY <1>1, <2>1, <3>1, <3>2
  <2>2. CASE n # 2
    <3>1. inbox'[n] = inbox[n] /\ OnTheWay(s, p + 1, n) = OnTheWay(s, p, n)
      BY <1>1, <1>2, <2>2 DEF Held, Inv, TypeOK, NodeTypeOK
    <3> QED
      BY <1>2, <3>1 DEF Coming, GraphsAt
  <2> QED
    BY <2>1, <2>2
<1> QED
  BY <1>1, <1>2, <1>4, <1>5 DEF GraphsAt

\* A delivery begins with everything on its way that it is to bring.
LEMMA DeliveryOnTime ==
  ASSUME NEW s \in Names, NEW seed \in Nat, NEW r \in 1 .. Rounds(s), NEW p,
         p = SnapshotAt(s, r) - 1, NodesAt(s, seed, p), GraphsAt(s, seed, p),
         BeginDelivery \/ BeginShuffle
  PROVE  NodesAt(s, seed, p + 1)' /\ DeliveryAt(s, seed, p + 1)'
<1>1. /\ StagingKept(s, p) /\ CopiesKept(s, p) /\ LinksKept(s, p)
      /\ \A n \in Node : /\ OnTheWay(s, p + 1, n) = {}
                         /\ Arrived(s, p + 1, n) = Arrived(s, p, n) \union OnTheWay(s, p, n)
  BY DeliveryTime
<1>2. UNCHANGED <<nodeVars, message_queues, partitioned, sent>>
  BY DEF BeginDelivery, BeginShuffle
<1>3. NodesAt(s, seed, p + 1)'
  BY <1>1, <1>2 DEF NodesAt, nodeVars, History, StagingKept, CopiesKept, LinksKept
<1>4. ASSUME NEW n \in Node
      PROVE  graph[n] \union Coming(n) = EventsOf(s, seed, Arrived(s, p, n) \union OnTheWay(s, p, n))
  BY EventsUnion DEF GraphsAt
<1> QED
  BY <1>1, <1>2, <1>3, <1>4 DEF DeliveryAt, Coming, nodeVars

-----------------------------------------------------------------------------
(* The steps of a script ------------------------------------------------- *)

\* The run that the program is in.
LEMMA ThisRunIs ==
  ASSUME SummariesOnTime, ~Finished
  PROVE  /\ job \in DOMAIN Jobs /\ ThisRun.scenario \in Names
         /\ ThisRun.seed \in 1 .. LastSeed /\ ThisRun.seed \in Nat
         /\ Follows(ThisScript, ThisRun.scenario, ThisRun.seed)
<1>1. LastSeed \in Nat \ {0}
  BY ProgramAssumption
<1>2. job \in DOMAIN Jobs
  BY <1>1, RunsAre DEF SummariesOnTime, Finished
<1>3. /\ ThisRun.scenario \in Names /\ ThisRun.seed \in 1 .. LastSeed /\ ThisRun.seed \in Nat
  BY <1>1, <1>2, RunsAre DEF ThisRun
<1> QED
  BY <1>2, <1>3, ScriptsFollow DEF ThisScript

\* A call waits for the one before it to return.
LEMMA CallsWait == ASSUME NEW c, Invoke(c) PROVE running = "none"
BY DEF Invoke, Idle, Broadcast, BroadcastWithFailures, SendWithDrops, Send, DrainSilently,
       Partition, Heal, CatchUp, BeginDelivery, BeginShuffle

\* What the calls of a script do.
LEMMA CallsDo ==
  /\ \A n, kind, t, parents : Invoke(Manual(n, kind, t, parents)) =>
       /\ Idle /\ Stage(n, kind, t, parents)
       /\ UNCHANGED <<message_queues, partitioned, messages_delivered, sent>>
  /\ \A n, kind, t : Invoke(Automatic(n, kind, t)) =>
       /\ Idle /\ Stage(n, kind, t, FrontierFor(n, t))
       /\ UNCHANGED <<message_queues, partitioned, messages_delivered, sent>>
  /\ \A n : /\ Invoke(On("broadcast", n)) => Broadcast(n)
            /\ Invoke(On("broadcast_with_failures", n)) => BroadcastWithFailures(n, {})
            /\ Invoke(On("partition", n)) => Partition(n)
            /\ Invoke(On("heal", n)) => Heal(n)
  /\ \A source, n : Invoke(Backlog(source, n)) => CatchUp(source, n)
  /\ Invoke(Do("deliver_all")) => BeginDelivery
  /\ Invoke(Do("deliver_all_shuffled")) => BeginShuffle
  /\ ~Invoke(Do("snapshot"))
BY DEF Invoke, Manual, Automatic, On, Backlog, Do

\* Only a snapshot takes a snapshot.
LEMMA CallsAreNoSnapshots ==
  /\ \A n, kind, t, parents : Manual(n, kind, t, parents).op # "snapshot"
  /\ \A n, kind, t : Automatic(n, kind, t).op # "snapshot"
  /\ \A n : /\ On("broadcast", n).op # "snapshot"
            /\ On("broadcast_with_failures", n).op # "snapshot"
            /\ On("partition", n).op # "snapshot" /\ On("heal", n).op # "snapshot"
  /\ \A source, n : Backlog(source, n).op # "snapshot"
  /\ Do("deliver_all").op # "snapshot" /\ Do("deliver_all_shuffled").op # "snapshot"
BY DEF Manual, Automatic, On, Backlog, Do

\* A call of the timetable: what happens at p, in a run of s with this seed.
ScriptCall(s, seed, p) ==
  \/ /\ UNCHANGED snapshots
     /\ \/ \E i \in Number :
             /\ p = StagedAt(s, i)
             /\ Idle /\ Stage(Author(s, i), KindOf(s, i), TaskOf(s, i), ParentsOf(s, seed, i))
             /\ UNCHANGED <<message_queues, partitioned, messages_delivered, sent>>
        \/ \E i \in Number : p = SentAt(s, i) /\ Send(Author(s, i), Receivers(s, i))
        \/ \E n \in Node : \/ p = CutAt(s, n) /\ Partition(n)
                           \/ p = HealedAt(s, n) /\ Heal(n)
        \/ s \in Partitions /\ p = 11 + IdleCalls(s) /\ CatchUp(0, 2)
        \/ \E r \in 1 .. Rounds(s) : p = SnapshotAt(s, r) - 1 /\ (BeginDelivery \/ BeginShuffle)
  \/ \E r \in 1 .. Rounds(s) : /\ p = SnapshotAt(s, r)
                               /\ snapshots' = Append(snapshots, CollectMetrics)
                               /\ UNCHANGED vars

\* A step of a script is the call that the timetable has there: with automatic
\* parents too, for the frontier is the last event of the chain.
LEMMA ScriptMoves ==
  ASSUME ProgramInv, ScriptStep
  PROVE  /\ Running /\ running = "none" /\ pc \in Nat \ {0}
         /\ ScriptCall(ThisRun.scenario, ThisRun.seed, pc)
<1> DEFINE s == ThisRun.scenario
           seed == ThisRun.seed
           c == ThisScript[pc]
<1>1. /\ job \in DOMAIN Jobs /\ s \in Names /\ seed \in Nat
      /\ Follows(ThisScript, s, seed) /\ pc \in DOMAIN ThisScript
  BY ThisRunIs DEF ScriptStep, ProgramInv
<1>2. \/ Invoke(c) /\ UNCHANGED snapshots
      \/ c.op = "snapshot" /\ running = "none" /\ snapshots' = Append(snapshots, CollectMetrics) /\ UNCHANGED vars
  BY DEF ScriptStep
<1> HIDE DEF s, seed, c
<1>3. pc \in 1 .. SnapshotAt(s, Rounds(s))
  BY <1>1 DEF Follows
<1>4. running = "none" /\ pc \in Nat \ {0} /\ Running
  <2>1. SnapshotAt(s, Rounds(s)) \in Nat
    BY <1>1, StartingTime
  <2> QED
    BY <1>2, <1>3, <2>1, CallsWait DEF Running, ScriptStep
<1>5. /\ NodesAt(s, seed, pc) /\ GraphsAt(s, seed, pc)
  BY <1>4 DEF ProgramInv, OnTime, s, seed
<1>6. ASSUME NEW i \in Number, pc = StagedAt(s, i) PROVE ScriptCall(s, seed, pc)
  <2>1. c = StagingCall(s, seed, i)
    BY <1>1, <1>6 DEF Follows, c
  <2>2. CASE s = "auto_frontier_reordered"
    <3>1. c = Automatic(Author(s, i), KindOf(s, i), TaskOf(s, i))
      BY <2>1, <2>2 DEF StagingCall
    <3>2. s \in Chains
      BY <2>2 DEF Chains
    <3>3. FrontierFor(Author(s, i), TaskOf(s, i)) = ParentsOf(s, seed, i)
      <4>1. /\ Author(s, i) \in Node /\ Unsent(s, pc, Author(s, i)) = {}
            /\ Arrived(s, pc, Author(s, i)) = 1 .. i - 1
        BY <1>1, <1>6, <3>2, StagingTime
      <4>2. /\ graph[Author(s, i)] = EventsOf(s, seed, 1 .. i - 1) /\ outbox[Author(s, i)] = {}
        BY <1>5, <4>1, EventsOfOne DEF NodesAt, GraphsAt
      <4> QED
        BY <1>1, <3>2, <4>1, <4>2, FrontierOfChain
    <3> QED
      BY <1>2, <1>6, <3>1, <3>3, CallsDo, CallsAreNoSnapshots DEF ScriptCall
  <2>3. CASE s # "auto_frontier_reordered"
    <3>1. c = Manual(Author(s, i), KindOf(s, i), TaskOf(s, i), ParentsOf(s, seed, i))
      BY <2>1, <2>3 DEF StagingCall
    <3> QED
      BY <1>2, <1>6, <3>1, CallsDo, CallsAreNoSnapshots DEF ScriptCall
  <2> QED
    BY <2>2, <2>3
<1>7. ASSUME NEW i \in Number, pc = SentAt(s, i) PROVE ScriptCall(s, seed, pc)
  <2>1. c = SendingCall(s, i)
    BY <1>1, <1>7 DEF Follows, c
  <2>2. CASE s \in Partitions /\ i < 3
    <3>1. c = On("broadcast_with_failures", Author(s, i))
      BY <2>1, <2>2 DEF SendingCall
    <3>2. BroadcastWithFailures(Author(s, i), {}) /\ UNCHANGED snapshots
      BY <1>2, <3>1, CallsDo, CallsAreNoSnapshots
    <3>3. /\ partitioned = Node \ Receivers(s, i) /\ Author(s, i) \in Receivers(s, i)
          /\ Receivers(s, i) \subseteq Node
      BY <1>1, <1>5, <1>7, SendingTime, ProgramAssumption DEF NodesAt, Receivers
    <3>4. {Author(s, i)} \union (Node \ (partitioned \union {})) = Receivers(s, i)
      BY <3>3
    <3> QED
      BY <1>7, <3>2, <3>3, <3>4 DEF BroadcastWithFailures, SendWithDrops, DrainSilently, ScriptCall
  <2>3. CASE ~(s \in Partitions /\ i < 3)
    <3>1. c = On("broadcast", Author(s, i))
      BY <2>1, <2>3 DEF SendingCall
    <3>2. Receivers(s, i) = Node
      BY <2>3, ProgramAssumption DEF Receivers
    <3> QED
      BY <1>2, <1>7, <3>1, <3>2, CallsDo, CallsAreNoSnapshots DEF Broadcast, ScriptCall
  <2> QED
    BY <2>2, <2>3
<1>8. ASSUME NEW n \in Node, pc = CutAt(s, n) \/ pc = HealedAt(s, n) PROVE ScriptCall(s, seed, pc)
  <2>1. CASE pc = CutAt(s, n)
    <3>1. c = On("partition", n)
      BY <1>1, <1>4, <2>1 DEF Follows, c
    <3> QED
      BY <1>2, <2>1, <3>1, CallsDo, CallsAreNoSnapshots DEF ScriptCall
  <2>2. CASE pc = HealedAt(s, n)
    <3>1. c = On("heal", n)
      BY <1>1, <1>4, <2>2, HealingTime DEF Follows, c
    <3> QED
      BY <1>2, <2>2, <3>1, CallsDo, CallsAreNoSnapshots DEF ScriptCall
  <2> QED
    BY <1>8, <2>1, <2>2
<1>9. ASSUME s \in Partitions, pc = 11 + IdleCalls(s) PROVE ScriptCall(s, seed, pc)
  <2>1. c = Backlog(0, 2)
    BY <1>1, <1>9 DEF Follows, c
  <2> QED
    BY <1>2, <1>9, <2>1, CallsDo, CallsAreNoSnapshots DEF ScriptCall
<1>10. ASSUME NEW r \in 1 .. Rounds(s), pc = SnapshotAt(s, r) - 1 PROVE ScriptCall(s, seed, pc)
  <2>1. c = Do("deliver_all") \/ c = Do("deliver_all_shuffled")
    BY <1>1, <1>10 DEF Follows, DeliveryCall, c
  <2> QED
    BY <1>2, <1>10, <2>1, CallsDo, CallsAreNoSnapshots DEF ScriptCall
<1>11. ASSUME NEW r \in 1 .. Rounds(s), pc = SnapshotAt(s, r) PROVE ScriptCall(s, seed, pc)
  <2>1. c = Do("snapshot")
    BY <1>1, <1>11 DEF Follows, c
  <2> QED
    BY <1>2, <1>11, <2>1, CallsDo DEF ScriptCall
<1>12. ScriptCall(s, seed, pc)
  BY <1>1, <1>3, <1>6, <1>7, <1>8, <1>9, <1>10, <1>11, MomentsAre
<1> QED
  BY <1>4, <1>12 DEF s, seed

\* What is proved of Delivery's steps, for the steps that the program takes.
LEMMA DeliveryKept ==
  ASSUME Held, Accounted, DrawnInQueue, [Next]_vars PROVE Held' /\ Accounted' /\ DrawnInQueue'
<1>1. Inv /\ HistoryInv /\ HeldIssued
  BY DEF Held
<1>2. Inv'
  BY <1>1, CallKeepsInv, StepKeepsInv, StutterKeepsInv DEF Next
<1>3. HistoryInv' /\ HeldIssued'
  <2>1. CASE UNCHANGED vars
    BY <1>1, <2>1, MovesKeepHeld DEF vars, nodeVars, deliveryVars, Moves
  <2> QED
    BY <1>1, <2>1, StagingKeepsHeld, CallMoves, StepMoves, MovesKeepHeld DEF Next
<1>4. Accounted'
  <2>1. CASE UNCHANGED vars
    BY <1>1, <2>1, CountsKept DEF vars, deliveryVars, callVars
  <2> QED
    BY <1>1, <1>2, <2>1, CallKeepsAccounted, StepKeepsAccounted DEF Next
<1> QED
  BY <1>1, <1>2, <1>3, <1>4, DrawnInductive DEF Held

\* A call of a script is one that the harness offers.
LEMMA ScriptCallsAreOffered ==
  ASSUME NEW s \in Names, NEW seed \in Nat, NEW p, NodesAt(s, seed, p), ScriptCall(s, seed, p)
  PROVE  [Next]_vars
<1>1. ASSUME NEW i \in Number, p = StagedAt(s, i), Idle,
             Stage(Author(s, i), KindOf(s, i), TaskOf(s, i), ParentsOf(s, seed, i)),
             UNCHANGED <<message_queues, partitioned, messages_delivered, sent>>
      PROVE  Call
  <2>1. Author(s, i) \in Node /\ Staged(s, p) = 1 .. i - 1
    BY <1>1, StagingTime
  <2>2. KindOf(s, i) \in Kinds /\ TaskOf(s, i) \in Task /\ "manual" \in Wiring
    BY ProgramAssumption DEF KindOf, TaskOf, Kind
  <2>3. ParentsOf(s, seed, i) \subseteq Ids(History)
    <3>1. Ids(History) = {Drawn(seed, j) : j \in 1 .. i - 1}
      BY <2>1, EventIds DEF NodesAt
    <3>2. i > 1 => Drawn(seed, i - 1) \in Ids(History)
      BY <3>1 DEF Number
    <3> QED
      BY <3>2 DEF ParentsOf
  <2> QED
    BY <1>1, <2>1, <2>2, <2>3 DEF Call, StageEvent, StageManual
<1>2. ASSUME NEW i \in Number, p = SentAt(s, i), Send(Author(s, i), Receivers(s, i)) PROVE Call
  <2>1. /\ Author(s, i) \in Node /\ Author(s, i) \in Receivers(s, i)
        /\ partitioned = Node \ Receivers(s, i) /\ Receivers(s, i) \subseteq Node
    BY <1>2, SendingTime, ProgramAssumption DEF NodesAt, Receivers
  <2>2. Receivers(s, i) = {Author(s, i)} \union (Node \ (partitioned \union {}))
    BY <2>1
  <2> QED
    BY <1>2, <2>1, <2>2 DEF Call, BroadcastWithFailures, SendWithDrops
<1>3. 0 \in Node /\ 2 \in Node
  BY ProgramAssumption
<1> QED
  BY <1>1, <1>2, <1>3 DEF ScriptCall, Next, Call

-----------------------------------------------------------------------------
(* What a round records -------------------------------------------------- *)

\* What the nodes have, and what has been delivered, when round r is recorded.
LEMMA RoundTime ==
  ASSUME NEW s \in Names, NEW r \in 1 .. Rounds(s), NEW p, p = SnapshotAt(s, r)
  PROVE  /\ \A n \in Node : Arrived(s, p, n) = 1 .. Has(s, r, n)
         /\ \A n \in Node : Has(s, r, n) \in 0 .. 3
         /\ CopiesSent(s, p) = Delivered(s, r)
<1> USE ProgramAssumption
  DEF StagedAt, SentAt, PushedAt, ArrivedAt, CutAt, HealedAt, SnapshotAt, Author, Receivers,
    Staged, Unsent, OnTheWay, Arrived, CutOff, CopiesSent, CopiesBy, Copies, RoundsTaken,
    Rounds, IdleRounds, IdleCalls, Names, Chains, Partitions, Number, Has, Delivered
<1>1. ASSUME NEW n \in Node PROVE Arrived(s, p, n) = 1 .. Has(s, r, n)
  OBVIOUS
<1>2. ASSUME NEW n \in Node PROVE Has(s, r, n) \in 0 .. 3
  OBVIOUS
<1>3. CopiesSent(s, p) = Delivered(s, r)
  OBVIOUS
<1> QED
  BY <1>1, <1>2, <1>3

\* As many events as numbers.
LEMMA EventsCounted ==
  ASSUME NEW s, NEW seed \in Nat, NEW k \in 0 .. 3
  PROVE  IsFiniteSet(EventsOf(s, seed, 1 .. k)) /\ Cardinality(EventsOf(s, seed, 1 .. k)) = k
<1> DEFINE F(j) == EventsOf(s, seed, 1 .. j)
           Counted(j) == IsFiniteSet(F(j)) /\ Cardinality(F(j)) = j
<1>1. Counted(0)
  <2>1. F(0) = {}
    BY DEF EventsOf
  <2> QED
    BY <2>1, FS_EmptySet
<1>2. ASSUME NEW j \in 1 .. 3, Counted(j - 1) PROVE Counted(j)
  <2>1. F(j) = F(j - 1) \union {EventOf(s, seed, j)}
    <3>1. 1 .. j = (1 .. j - 1) \union {j}
      OBVIOUS
    <3> QED
      BY <3>1 DEF EventsOf
  <2>2. EventOf(s, seed, j) \notin F(j - 1)
    BY EventsDiffer DEF EventsOf
  <2> HIDE DEF F
  <2> QED
    BY <1>2, <2>1, <2>2, FS_AddElement
<1> HIDE DEF Counted
<1>3. Counted(1)
  BY <1>1, <1>2
<1>4. Counted(2)
  BY <1>3, <1>2
<1>5. Counted(3)
  BY <1>4, <1>2
<1>6. Counted(k)
  BY <1>1, <1>3, <1>4, <1>5
<1> QED
  BY <1>6 DEF Counted

\* How many parents the events of a node mention, and whether claims on task 1 conflict.
Edges(s, k) == IF s \in Chains THEN IF k = 0 THEN 0 ELSE k - 1
               ELSE IF s \in Partitions /\ k > 1 THEN 1 ELSE 0
Conflicts(s, k) == s = "high_contention" /\ k = 3

\* Parents are counted once each.
LEMMA EdgesCounted ==
  ASSUME NEW s \in Names, NEW seed \in Nat, NEW k \in 0 .. 3
  PROVE  Cardinality(Mentioned(EventsOf(s, seed, 1 .. k))) = Edges(s, k)
<1> DEFINE M == Mentioned(EventsOf(s, seed, 1 .. k))
<1>1. M = UNION {ParentsOf(s, seed, i) : i \in 1 .. k}
  <2>1. \A i \in 1 .. k : EventOf(s, seed, i).parents = ParentsOf(s, seed, i)
    BY EventFields
  <2> QED
    BY <2>1 DEF Mentioned, EventsOf
<1>2. Drawn(seed, 1) # Drawn(seed, 2)
  BY DEF Drawn
<1> HIDE DEF M
<1>3. CASE Edges(s, k) = 0
  <2>1. \A i \in 1 .. k : ParentsOf(s, seed, i) = {}
    BY <1>3 DEF Edges, ParentsOf, Names
  <2>2. M = {}
    BY <1>1, <2>1
  <2> QED
    BY <1>3, <2>2, FS_EmptySet DEF M
<1>4. CASE Edges(s, k) = 1
  <2>1. M = {Drawn(seed, 1)}
    <3>1. ParentsOf(s, seed, 2) = {Drawn(seed, 1)} /\ 2 \in 1 .. k
      BY <1>4 DEF Edges, ParentsOf
    <3>2. \A i \in 1 .. k : i # 2 => ParentsOf(s, seed, i) = {}
      BY <1>4 DEF Edges, ParentsOf, Chains, Partitions
    <3> QED
      BY <1>1, <3>1, <3>2
  <2> QED
    BY <1>4, <2>1, FS_Singleton DEF M
<1>5. CASE Edges(s, k) = 2
  <2>1. k = 3 /\ s \in Chains
    BY <1>5 DEF Edges
  <2>2. /\ ParentsOf(s, seed, 1) = {} /\ ParentsOf(s, seed, 2) = {Drawn(seed, 1)}
        /\ ParentsOf(s, seed, 3) = {Drawn(seed, 2)}
    BY <2>1 DEF ParentsOf
  <2>3. 1 .. k = {1, 2, 3}
    BY <2>1
  <2>4. M = {Drawn(seed, 1)} \union {Drawn(seed, 2)}
    BY <1>1, <2>2, <2>3
  <2>5. IsFiniteSet({Drawn(seed, 1)}) /\ Cardinality({Drawn(seed, 1)}) = 1
    BY FS_Singleton
  <2>6. Cardinality(M) = 2
    BY <1>2, <2>4, <2>5, FS_AddElement
  <2> QED
    BY <1>5, <2>6 DEF M
<1>6. Edges(s, k) \in {0, 1, 2}
  BY DEF Edges
<1> QED
  BY <1>3, <1>4, <1>5, <1>6

\* The claims and completions among the first events of a scenario.
LEMMA KindsHeld ==
  ASSUME NEW s, NEW seed, NEW k, NEW kind
  PROVE  Ids(OfKind(EventsOf(s, seed, 1 .. k), kind, 1))
           = {Drawn(seed, i) : i \in {j \in 1 .. k : KindOf(s, j) = kind /\ TaskOf(s, j) = 1}}
<1> DEFINE G == EventsOf(s, seed, 1 .. k)
<1>1. \A i : /\ EventOf(s, seed, i).id = Drawn(seed, i) /\ EventOf(s, seed, i).kind = KindOf(s, i)
             /\ EventOf(s, seed, i).task = TaskOf(s, i)
  BY EventFields
<1>2. \A x : x \in Ids(OfKind(G, kind, 1)) <=> \E e \in G : e.kind = kind /\ e.task = 1 /\ x = e.id
  BY DEF Ids, OfKind, ExtractTaskSubgraph
<1>3. \A e : e \in G <=> \E i \in 1 .. k : e = EventOf(s, seed, i)
  BY DEF EventsOf
<1> HIDE DEF G
<1> QED
  BY <1>1, <1>2, <1>3 DEF G

\* Only the two claims of high_contention conflict, wherever they meet.
LEMMA ConflictsFound ==
  ASSUME NEW s \in Names, NEW seed \in Nat, NEW k \in 0 .. 3
  PROVE  HasConflict(EventsOf(s, seed, 1 .. k), 1) <=> Conflicts(s, k)
<1> DEFINE G == EventsOf(s, seed, 1 .. k)
<1>1. CASE Conflicts(s, k)
  <2>1. s = "high_contention" /\ k = 3 /\ s \notin Chains /\ s \notin Partitions
    BY <1>1 DEF Conflicts, Chains, Partitions
  <2>2. Drawn(seed, 2) \in Ids(Claims(G, 1)) /\ Drawn(seed, 3) \in Ids(Claims(G, 1))
    <3>1. Ids(Claims(G, 1))
            = {Drawn(seed, i) : i \in {j \in 1 .. k : KindOf(s, j) = "Claim" /\ TaskOf(s, j) = 1}}
      BY KindsHeld DEF Claims
    <3>2. /\ 2 \in {j \in 1 .. k : KindOf(s, j) = "Claim" /\ TaskOf(s, j) = 1}
          /\ 3 \in {j \in 1 .. k : KindOf(s, j) = "Claim" /\ TaskOf(s, j) = 1}
      BY <2>1 DEF KindOf, TaskOf
    <3> QED
      BY <3>1, <3>2
  <2>3. \A e \in G : e.parents = {}
    <3> SUFFICES ASSUME NEW i \in 1 .. k PROVE EventOf(s, seed, i).parents = {}
      BY DEF EventsOf
    <3> QED
      BY <2>1, EventFields DEF ParentsOf
  <2>4. \A a, b : ~Precedes(G, a, b)
    <3>1. \A S : ParentsIn(G, S) = {}
      BY <2>3 DEF ParentsIn
    <3>2. {} \in SUBSET Mentioned(G)
      OBVIOUS
    <3> QED
      BY <3>1, <3>2 DEF Precedes, AncestorClosed
  <2>5. Drawn(seed, 2) # Drawn(seed, 3)
    BY DEF Drawn
  <2> QED
    BY <1>1, <2>2, <2>4, <2>5 DEF HasConflict, HasConcurrentPair, Concurrent
<1>2. CASE ~Conflicts(s, k)
  <2>1. \A a, b \in Ids(Claims(G, 1)) : a = b
    <3>1. \A i \in 1 .. k : KindOf(s, i) = "Claim" => i = 2
      BY <1>2 DEF Conflicts, KindOf, Names
    <3>2. \A x \in Ids(Claims(G, 1)) : x = Drawn(seed, 2)
      <4> SUFFICES ASSUME NEW x, x \in Ids(OfKind(G, "Claim", 1)) PROVE x = Drawn(seed, 2)
        BY DEF Claims
      <4>1. x \in {Drawn(seed, i) : i \in {j \in 1 .. k : KindOf(s, j) = "Claim" /\ TaskOf(s, j) = 1}}
        BY KindsHeld
      <4> QED
        BY <3>1, <4>1
    <3> HIDE DEF G
    <3> QED
      BY <3>2
  <2>2. \A a, b \in Ids(Completions(G, 1)) : a = b
    <3>1. \A i \in 1 .. k : KindOf(s, i) = "Complete" => i = 3
      BY DEF KindOf
    <3>2. \A x \in Ids(Completions(G, 1)) : x = Drawn(seed, 3)
      <4> SUFFICES ASSUME NEW x, x \in Ids(OfKind(G, "Complete", 1)) PROVE x = Drawn(seed, 3)
        BY DEF Completions
      <4>1. x \in {Drawn(seed, i) : i \in {j \in 1 .. k : KindOf(s, j) = "Complete" /\ TaskOf(s, j) = 1}}
        BY KindsHeld
      <4> QED
        BY <3>1, <4>1
    <3> HIDE DEF G
    <3> QED
      BY <3>2
  <2> QED
    BY <1>2, <2>1, <2>2 DEF HasConflict, HasConcurrentPair
<1> QED
  BY <1>1, <1>2

\* The nodes agree at a round: in the partition scenarios only at the last one.
Agree(s, r) == s \in Partitions => r = Rounds(s)

\* What a round of the timetable records: as many events as a node has, and so on.
RoundOf(s, r) ==
  Snapshot(Delivered(s, r), [n \in Node |-> Has(s, r, n)],
           [n \in Node |-> IF Conflicts(s, Has(s, r, n)) THEN 1 ELSE 0],
           [n \in Node |-> Edges(s, Has(s, r, n))], Agree(s, r),
           IF s \in Partitions THEN Rounds(s) ELSE 1)

\* A table of three nodes.
LEMMA PerIs ==
  ASSUME NEW a, NEW b, NEW c, NEW f, f = [n \in Node |-> f[n]], f[0] = a, f[1] = b, f[2] = c
  PROVE  Per(a, b, c) = f
<1>1. \A n \in Node : <<a, b, c>>[n + 1] = f[n]
  BY ProgramAssumption
<1> QED
  BY <1>1 DEF Per

\* The tables of a round.
LEMMA RoundIs ==
  ASSUME NEW s \in Names, NEW r \in 1 .. Rounds(s)
  PROVE  /\ RoundOf(s, r).event_counts = Per(Has(s, r, 0), Has(s, r, 1), Has(s, r, 2))
         /\ RoundOf(s, r).edge_counts
              = Per(Edges(s, Has(s, r, 0)), Edges(s, Has(s, r, 1)), Edges(s, Has(s, r, 2)))
         /\ LET C(n) == IF Conflicts(s, Has(s, r, n)) THEN 1 ELSE 0
            IN  RoundOf(s, r).conflict_counts = Per(C(0), C(1), C(2))
<1> DEFINE C(n) == IF Conflicts(s, Has(s, r, n)) THEN 1 ELSE 0
           events == [n \in Node |-> Has(s, r, n)]
           edges == [n \in Node |-> Edges(s, Has(s, r, n))]
           conflicts == [n \in Node |-> C(n)]
<1>1. 0 \in Node /\ 1 \in Node /\ 2 \in Node
  BY ProgramAssumption
<1>2. events = Per(Has(s, r, 0), Has(s, r, 1), Has(s, r, 2))
  BY <1>1, PerIs
<1>3. edges = Per(Edges(s, Has(s, r, 0)), Edges(s, Has(s, r, 1)), Edges(s, Has(s, r, 2)))
  BY <1>1, PerIs
<1>4. conflicts = Per(C(0), C(1), C(2))
  BY <1>1, PerIs
<1> QED
  BY <1>2, <1>3, <1>4 DEF RoundOf, Snapshot

\* The chain scenarios.
LEMMA ChainRecorded ==
  ASSUME NEW s \in Chains, TRUE
  PROVE  /\ Len(Recorded(s)) = Rounds(s) /\ DOMAIN Recorded(s) = 1 .. Rounds(s)
         /\ \A r \in 1 .. Rounds(s) : Recorded(s)[r] = RoundOf(s, r)
<1>1. Recorded(s) = RecordedChain /\ s \notin Partitions /\ Rounds(s) = 3 /\ s # "high_contention"
  BY DEF Recorded, Chains, Partitions, Rounds, IdleRounds
<1>2. /\ Len(RecordedChain) = 3 /\ DOMAIN RecordedChain = 1 .. 3
      /\ \A r \in 1 .. 3 : RecordedChain[r]
           = Snapshot(3 * r, Per(r, r, r), Per(0, 0, 0), Per(r - 1, r - 1, r - 1), TRUE, 1)
  BY DEF RecordedChain
<1>3. ASSUME NEW r \in 1 .. 3
      PROVE  RoundOf(s, r) = Snapshot(3 * r, Per(r, r, r), Per(0, 0, 0), Per(r - 1, r - 1, r - 1), TRUE, 1)
  <2>1. /\ \A n : Has(s, r, n) = r /\ ~Conflicts(s, r) /\ Edges(s, r) = r - 1
        /\ Delivered(s, r) = 3 * r /\ Agree(s, r) = TRUE
    BY <1>1 DEF Has, Conflicts, Edges, Delivered, Agree
  <2>2. /\ RoundOf(s, r).event_counts = Per(r, r, r) /\ RoundOf(s, r).edge_counts = Per(r - 1, r - 1, r - 1)
        /\ RoundOf(s, r).conflict_counts = Per(0, 0, 0)
    BY <1>1, <2>1, RoundIs DEF Names
  <2> QED
    BY <1>1, <2>1, <2>2 DEF RoundOf, Snapshot
<1> QED
  BY <1>1, <1>2, <1>3

\* The contention.
LEMMA ContentionRecorded ==
  ASSUME NEW s, s = "high_contention"
  PROVE  /\ Len(Recorded(s)) = Rounds(s) /\ DOMAIN Recorded(s) = 1 .. Rounds(s)
         /\ \A r \in 1 .. Rounds(s) : Recorded(s)[r] = RoundOf(s, r)
<1> DEFINE c(r) == IF r = 3 THEN 1 ELSE 0
<1>1. Recorded(s) = RecordedContention /\ s \notin Partitions /\ s \notin Chains /\ Rounds(s) = 3
  BY DEF Recorded, Partitions, Chains, Rounds, IdleRounds
<1>2. /\ Len(RecordedContention) = 3 /\ DOMAIN RecordedContention = 1 .. 3
      /\ \A r \in 1 .. 3 : RecordedContention[r]
           = Snapshot(3 * r, Per(r, r, r), Per(c(r), c(r), c(r)), Per(0, 0, 0), TRUE, 1)
  BY DEF RecordedContention
<1>3. ASSUME NEW r \in 1 .. 3
      PROVE  RoundOf(s, r)
               = Snapshot(3 * r, Per(r, r, r), Per(c(r), c(r), c(r)), Per(0, 0, 0), TRUE, 1)
  <2>1. /\ \A n : Has(s, r, n) = r /\ (Conflicts(s, r) <=> r = 3) /\ Edges(s, r) = 0
        /\ Delivered(s, r) = 3 * r /\ Agree(s, r) = TRUE
    BY <1>1 DEF Has, Conflicts, Edges, Delivered, Agree
  <2>2. /\ RoundOf(s, r).event_counts = Per(r, r, r) /\ RoundOf(s, r).edge_counts = Per(0, 0, 0)
        /\ RoundOf(s, r).conflict_counts = Per(c(r), c(r), c(r))
    BY <1>1, <2>1, RoundIs DEF Names
  <2> QED
    BY <1>1, <2>1, <2>2 DEF RoundOf, Snapshot
<1> HIDE DEF c
<1> QED
  BY <1>1, <1>2, <1>3

\* The partitions.
LEMMA PartitionRecorded ==
  ASSUME NEW s \in Partitions, TRUE
  PROVE  /\ Len(Recorded(s)) = Rounds(s) /\ DOMAIN Recorded(s) = 1 .. Rounds(s)
         /\ \A r \in 1 .. Rounds(s) : Recorded(s)[r] = RoundOf(s, r)
<1> DEFINE idle == IdleRounds(s)
           zero == Per(0, 0, 0)
           first == Snapshot(2, Per(1, 1, 0), zero, zero, FALSE, idle + 3)
           apart == Snapshot(4, Per(2, 2, 0), zero, Per(1, 1, 0), FALSE, idle + 3)
           last == Snapshot(7, Per(3, 3, 3), zero, Per(1, 1, 1), TRUE, idle + 3)
           At(r) == IF r = 1 THEN first ELSE IF r = idle + 3 THEN last ELSE apart
<1>1. /\ Recorded(s) = RecordedPartition(idle) /\ s \notin Chains /\ s # "high_contention"
      /\ Rounds(s) = idle + 3 /\ idle \in {0, 3}
  BY DEF Recorded, Partitions, Chains, Rounds, IdleRounds
<1> HIDE DEF idle
<1>2. ASSUME NEW i \in {0, 3}, NEW x, NEW y, NEW z
      PROVE  LET q == <<x>> \o [k \in 1 .. i + 1 |-> y] \o <<z>>
             IN  /\ Len(q) = i + 3 /\ DOMAIN q = 1 .. i + 3
                 /\ \A r \in 1 .. i + 3 : q[r] = IF r = 1 THEN x ELSE IF r = i + 3 THEN z ELSE y
  <2>1. [k \in 1 .. i + 1 |-> y] \in Seq({y}) /\ Len([k \in 1 .. i + 1 |-> y]) = i + 1
    OBVIOUS
  <2> QED
    BY <2>1
<1>3. /\ Len(RecordedPartition(idle)) = idle + 3 /\ DOMAIN RecordedPartition(idle) = 1 .. idle + 3
      /\ \A r \in 1 .. idle + 3 : RecordedPartition(idle)[r] = At(r)
  <2>1. 1 - 1 = 0 /\ 2 - 1 = 1
    OBVIOUS
  <2>2. RecordedPartition(idle) = <<first>> \o [k \in 1 .. idle + 1 |-> apart] \o <<last>>
    BY <2>1 DEF RecordedPartition
  <2> HIDE DEF first, apart, last
  <2> QED
    BY <1>1, <1>2, <2>2
<1>4. ASSUME NEW r \in 1 .. idle + 3 PROVE RoundOf(s, r) = At(r)
  <2>1. /\ \A n \in {0, 1} : Has(s, r, n) = IF r = 1 THEN 1 ELSE IF r = idle + 3 THEN 3 ELSE 2
        /\ Has(s, r, 2) = IF r = idle + 3 THEN 3 ELSE 0
        /\ \A k : ~Conflicts(s, k)
        /\ \A k \in 0 .. 3 : Edges(s, k) = IF k > 1 THEN 1 ELSE 0
        /\ Delivered(s, r) = IF r = 1 THEN 2 ELSE IF r = idle + 3 THEN 7 ELSE 4
        /\ Agree(s, r) = (r = idle + 3)
    BY <1>1 DEF Has, Conflicts, Edges, Delivered, Agree
  <2>2. /\ RoundOf(s, r).event_counts = Per(Has(s, r, 0), Has(s, r, 1), Has(s, r, 2))
        /\ RoundOf(s, r).edge_counts
              = Per(Edges(s, Has(s, r, 0)), Edges(s, Has(s, r, 1)), Edges(s, Has(s, r, 2)))
        /\ RoundOf(s, r).conflict_counts = zero
    BY <1>1, <2>1, RoundIs DEF Names
  <2>3. RoundOf(s, r) = Snapshot(Delivered(s, r), RoundOf(s, r).event_counts, RoundOf(s, r).conflict_counts,
                                 RoundOf(s, r).edge_counts, Agree(s, r), idle + 3)
    BY <1>1 DEF RoundOf, Snapshot
  <2>4. CASE r = 1
    <3>1. /\ Has(s, r, 0) = 1 /\ Has(s, r, 1) = 1 /\ Has(s, r, 2) = 0
          /\ Edges(s, 1) = 0 /\ Edges(s, 0) = 0 /\ Delivered(s, r) = 2
      BY <1>1, <2>1, <2>4
    <3>2. Agree(s, r) = FALSE
      BY <1>1, <2>4 DEF Agree
    <3>3. At(r) = first
      BY <1>1, <2>4
    <3> QED
      BY <2>2, <2>3, <3>1, <3>2, <3>3
  <2>5. CASE r = idle + 3
    <3>1. /\ Has(s, r, 0) = 3 /\ Has(s, r, 1) = 3 /\ Has(s, r, 2) = 3
          /\ Edges(s, 3) = 1 /\ Edges(s, 3) = 1 /\ Delivered(s, r) = 7
      BY <1>1, <2>1, <2>5
    <3>2. Agree(s, r) = TRUE
      BY <1>1, <2>5 DEF Agree
    <3>3. At(r) = last
      <4>1. r # 1
        BY <1>1, <2>5
      <4> QED
        BY <2>5, <4>1, Zenon
    <3> QED
      BY <2>2, <2>3, <3>1, <3>2, <3>3
  <2>6. CASE r # 1 /\ r # idle + 3
    <3>1. /\ Has(s, r, 0) = 2 /\ Has(s, r, 1) = 2 /\ Has(s, r, 2) = 0
          /\ Edges(s, 2) = 1 /\ Edges(s, 0) = 0 /\ Delivered(s, r) = 4
      BY <1>1, <2>1, <2>6
    <3>2. Agree(s, r) = FALSE
      BY <1>1, <2>6 DEF Agree
    <3>3. At(r) = apart
      BY <1>1, <2>6
    <3> QED
      BY <2>2, <2>3, <3>1, <3>2, <3>3
  <2> QED
    BY <2>4, <2>5, <2>6
<1> HIDE DEF At
<1> QED
  BY <1>1, <1>3, <1>4

\* What is recorded is what the timetable says.
LEMMA RecordedIs ==
  ASSUME NEW s \in Names, TRUE
  PROVE  /\ Len(Recorded(s)) = Rounds(s) /\ DOMAIN Recorded(s) = 1 .. Rounds(s)
         /\ \A r \in 1 .. Rounds(s) : Recorded(s)[r] = RoundOf(s, r)
BY ChainRecorded, ContentionRecorded, PartitionRecorded DEF Names

\* The nodes have converged at the rounds of the timetable where they agree.
LEMMA ConvergedOnTime ==
  ASSUME NEW s \in Names, NEW seed \in Nat, NEW r \in 1 .. Rounds(s),
         \A n \in Node : graph[n] = EventsOf(s, seed, 1 .. Has(s, r, n))
  PROVE  (EventsConverged /\ DerivedStatesConverged) <=> Agree(s, r)
<1>1. CASE Agree(s, r)
  <2>1. \A m, n \in Node : Has(s, r, m) = Has(s, r, n)
    BY <1>1 DEF Agree, Has
  <2>2. \A m, n \in Node : graph[m] = graph[n]
    BY <2>1
  <2>3. EventsConverged
    BY <2>2 DEF EventsConverged
  <2>4. DerivedStatesConverged
    BY <2>2 DEF DerivedStatesConverged
  <2> QED
    BY <1>1, <2>3, <2>4
<1>2. CASE ~Agree(s, r)
  <2>1. /\ 0 \in Node /\ 2 \in Node /\ Has(s, r, 0) \in {1, 2} /\ Has(s, r, 2) = 0
    BY <1>2, ProgramAssumption DEF Agree, Has
  <2>2. Ids(graph[2]) = {}
    <3>1. graph[2] = {}
      <4>1. graph[2] = EventsOf(s, seed, 1 .. 0) /\ 1 .. 0 = {}
        BY <2>1
      <4> QED
        BY <4>1, EventsOfOne
    <3> QED
      BY <3>1 DEF Ids
  <2>3. Drawn(seed, 1) \in Ids(graph[0])
    BY <2>1, EventIds
  <2> QED
    BY <1>2, <2>1, <2>2, <2>3 DEF EventsConverged
<1> QED
  BY <1>1, <1>2

\* A snapshot records what the timetable says, whatever the seed.
LEMMA MetricsOnTime ==
  ASSUME Held, Accounted, delivered = 0,
         NEW s \in Names, NEW seed \in Nat, NEW r \in 1 .. Rounds(s), NEW p, p = SnapshotAt(s, r),
         NodesAt(s, seed, p), GraphsAt(s, seed, p)
  PROVE  CollectMetrics = Unstamped(s, r)
<1>1. /\ \A n \in Node : graph[n] = EventsOf(s, seed, 1 .. Has(s, r, n)) /\ Has(s, r, n) \in 0 .. 3
      /\ sent = Delivered(s, r)
  BY RoundTime DEF NodesAt, GraphsAt
<1>2. messages_delivered = Delivered(s, r)
  <2>1. \A n \in Node : message_queues[n] = <<>>
    BY SnapshotTime DEF GraphsAt
  <2> QED
    BY <1>1, <2>1, NothingInFlight DEF Accounted, Held, Inv, TypeOK
<1>3. [n \in Node |-> Cardinality(graph[n])] = [n \in Node |-> Has(s, r, n)]
  <2>1. \A n \in Node : Cardinality(graph[n]) = Has(s, r, n)
    <3> SUFFICES ASSUME NEW n \in Node PROVE Cardinality(graph[n]) = Has(s, r, n)
      OBVIOUS
    <3>1. graph[n] = EventsOf(s, seed, 1 .. Has(s, r, n)) /\ Has(s, r, n) \in 0 .. 3
      BY <1>1
    <3> QED
      BY <3>1, EventsCounted
  <2> QED
    BY <2>1
<1>4. [n \in Node |-> IF DeriveTaskState(graph[n], TrackedTask).has_conflict THEN 1 ELSE 0]
        = [n \in Node |-> IF Conflicts(s, Has(s, r, n)) THEN 1 ELSE 0]
  <2> SUFFICES ASSUME NEW n \in Node
               PROVE  DeriveTaskState(graph[n], TrackedTask).has_conflict <=> Conflicts(s, Has(s, r, n))
    OBVIOUS
  <2>1. DeriveTaskState(graph[n], TrackedTask).has_conflict = HasConflict(graph[n], 1)
    BY DEF DeriveTaskState, TrackedTask
  <2>2. HasConflict(graph[n], 1) <=> Conflicts(s, Has(s, r, n))
    BY <1>1, ConflictsFound
  <2> QED
    BY <2>1, <2>2
<1>5. [n \in Node |-> Cardinality(Mentioned(graph[n]))] = [n \in Node |-> Edges(s, Has(s, r, n))]
  BY <1>1, EdgesCounted
<1>6. (EventsConverged /\ DerivedStatesConverged) = Agree(s, r)
  <2>1. (EventsConverged /\ DerivedStatesConverged) <=> Agree(s, r)
    BY <1>1, ConvergedOnTime
  <2>2. Agree(s, r) \in BOOLEAN /\ (EventsConverged /\ DerivedStatesConverged) \in BOOLEAN
    BY DEF Agree
  <2> QED
    BY <2>1, <2>2
<1>7. CollectMetrics = [RoundOf(s, r) EXCEPT !.convergence_round = None]
  <2>1. PICK events, conflicts, edges, round :
          /\ RoundOf(s, r) = Snapshot(Delivered(s, r), events, conflicts, edges, Agree(s, r), round)
          /\ events = [n \in Node |-> Has(s, r, n)]
          /\ conflicts = [n \in Node |-> IF Conflicts(s, Has(s, r, n)) THEN 1 ELSE 0]
          /\ edges = [n \in Node |-> Edges(s, Has(s, r, n))]
    BY DEF RoundOf
  <2>2. CollectMetrics = Snapshot(Delivered(s, r), events, conflicts, edges, Agree(s, r), None)
    BY <1>2, <1>3, <1>4, <1>5, <1>6, <2>1 DEF CollectMetrics, Snapshot
  <2>3. [Snapshot(Delivered(s, r), events, conflicts, edges, Agree(s, r), round)
           EXCEPT !.convergence_round = None]
          = Snapshot(Delivered(s, r), events, conflicts, edges, Agree(s, r), None)
    BY DEF Snapshot
  <2> QED
    BY <2>1, <2>2, <2>3
<1> QED
  BY <1>7, RecordedIs DEF Unstamped

-----------------------------------------------------------------------------
(* The steps of the program ---------------------------------------------- *)

\* A turn of a delivery leaves to a node what it has and what comes to it; no queue
\* is long enough to be shuffled.
LEMMA TurnsKeepEvents ==
  ASSUME Held, ShortQueues, DeliveryStep
  PROVE  /\ UNCHANGED <<outbox, next, issued, partitioned, sent, rng>> /\ running # "none"
         /\ \A n \in Node : graph'[n] \union Coming(n)' = graph[n] \union Coming(n)
         /\ ShortQueues'
         /\ running' = "none" => /\ running = "deliver" /\ waiting = {}
                                 /\ UNCHANGED <<graph, inbox, message_queues>>
<1> DEFINE Kept == /\ UNCHANGED <<outbox, next, issued, partitioned, sent, rng>>
                   /\ \A m \in Node : graph'[m] \union Coming(m)' = graph[m] \union Coming(m)
                   /\ ShortQueues'
<1>1. ASSUME NEW n \in Node, Receive(n) PROVE Kept /\ running = "deliver" /\ running' = "deliver"
  <2>1. /\ message_queues[n] \in Seq(Message) /\ message_queues[n] # <<>>
        /\ inbox' = [inbox EXCEPT ![n] = @ \union Head(message_queues[n])]
        /\ message_queues' = [message_queues EXCEPT ![n] = Tail(@)]
        /\ UNCHANGED <<graph, outbox, next, issued, partitioned, sent, rng, running>>
        /\ running = "deliver"
    BY <1>1 DEF Receive, AtTurn, Held, Inv, TypeOK
  <2>2. Carried(message_queues[n]) = Head(message_queues[n]) \union Carried(Tail(message_queues[n]))
    BY <2>1, CarriedByHeadAndTail
  <2>3. ASSUME NEW m \in Node PROVE Coming(m)' = Coming(m)
    BY <2>1, <2>2 DEF Coming, Held, Inv, TypeOK, NodeTypeOK
  <2>4. Len(Tail(message_queues[n])) = Len(message_queues[n]) - 1 /\ Len(message_queues[n]) \in Nat
    BY <2>1
  <2>5. ShortQueues'
    BY <2>1, <2>4 DEF ShortQueues, Held, Inv, TypeOK
  <2> QED
    BY <2>1, <2>3, <2>5
<1>2. ASSUME NEW n \in Node, ProcessInbox(n) PROVE Kept /\ running = "deliver" /\ running' = "deliver"
  <2>1. /\ inbox' = [inbox EXCEPT ![n] = {}]
        /\ graph' = [graph EXCEPT ![n] = InsertAll(@, inbox[n])]
        /\ UNCHANGED <<message_queues, outbox, next, issued, partitioned, sent, rng, running>>
        /\ running = "deliver"
    BY <1>2 DEF ProcessInbox, AtTurn
  <2>2. InsertAll(graph[n], inbox[n]) = graph[n] \union inbox[n]
    BY InsertAllIsUnion DEF Held, HeldIssued
  <2>3. ASSUME NEW m \in Node PROVE graph'[m] \union Coming(m)' = graph[m] \union Coming(m)
    BY <2>1, <2>2 DEF Coming, Held, Inv, TypeOK, NodeTypeOK
  <2> QED
    BY <2>1, <2>3 DEF ShortQueues
<1>3. ASSUME NEW n \in Node PROVE ~ShuffleStep(n)
  <2>1. drawn \in Nat /\ Len(message_queues[n]) \in Nat /\ Len(message_queues[n]) =< 1
    BY DEF Held, Inv, TypeOK, ShortQueues
  <2>2. ~(Position(n) >= 1)
    BY <2>1 DEF Position
  <2> QED
    BY <2>2 DEF ShuffleStep
<1>4. ASSUME NEW n \in Node, NextQueue(n) PROVE Kept /\ running = "shuffle" /\ running' = "shuffle"
  BY <1>4 DEF NextQueue, AtTurn, nodeVars, Coming, ShortQueues
<1>5. ASSUME EndShuffle PROVE Kept /\ running = "shuffle" /\ running' = "deliver"
  BY <1>5 DEF EndShuffle, nodeVars, Coming, ShortQueues
<1>6. ASSUME EndDelivery
      PROVE  Kept /\ running = "deliver" /\ waiting = {} /\ UNCHANGED <<graph, inbox, message_queues>>
  BY <1>6 DEF EndDelivery, nodeVars, Coming, ShortQueues
<1> HIDE DEF Kept
<1>7. Kept /\ running # "none" /\ (running' = "none" => /\ running = "deliver" /\ waiting = {}
                                 /\ UNCHANGED <<graph, inbox, message_queues>>)
  BY <1>1, <1>2, <1>3, <1>4, <1>5, <1>6 DEF DeliveryStep
<1> QED
  BY <1>7 DEF Kept

\* While a run goes on, it is the same run.
LEMMA SameRun ==
  ASSUME UNCHANGED job
  PROVE  /\ ThisRun' = ThisRun /\ ThisScript' = ThisScript /\ Finished' = Finished
         /\ UNCHANGED summaries /\ SummariesOnTime => SummariesOnTime'
BY DEF ThisRun, ThisScript, Finished, SummariesOnTime

\* A turn of a delivery is on time.
LEMMA LoopKeepsInv == ASSUME ProgramInv, LoopStep PROVE ProgramInv'
<1>1. /\ Held /\ Accounted /\ DrawnInQueue /\ ShortQueues /\ DeliveryStep
      /\ UNCHANGED <<job, pc, snapshots, summaries>>
  BY DEF ProgramInv, LoopStep, programVars
<1>2. Held' /\ Accounted' /\ DrawnInQueue'
  BY <1>1, DeliveryKept DEF Next
<1>3. /\ UNCHANGED <<outbox, next, issued, partitioned, sent, rng>> /\ running # "none"
      /\ \A n \in Node : graph'[n] \union Coming(n)' = graph[n] \union Coming(n)
      /\ ShortQueues'
      /\ running' = "none" => /\ running = "deliver" /\ waiting = {}
                              /\ UNCHANGED <<graph, inbox, message_queues>>
  BY <1>1, TurnsKeepEvents
<1>4. Running /\ Running' /\ pc \in Nat \ {0}
  BY <1>1, <1>3 DEF ProgramInv, BetweenRuns, Running, Finished
<1>5. BetweenRuns'
  <2>1. running' # "deliver" => delivered' = 0
    BY <1>1 DEF DeliveryStep, Receive, ProcessInbox, ShuffleStep, NextQueue, EndShuffle, EndDelivery,
                AtTurn, ProgramInv, BetweenRuns
  <2> QED
    BY <1>1, <1>4, <2>1 DEF BetweenRuns, Running
<1>6. SummariesOnTime' /\ RngUntouched'
  BY <1>1, <1>3, <1>4, SameRun DEF ProgramInv, RngUntouched
<1>7. OnTime'
  <2> DEFINE s == ThisRun.scenario
             seed == ThisRun.seed
  <2>1. /\ pc \in 1 .. Len(ThisScript) + 1 /\ NodesAt(s, seed, pc) /\ DeliveryAt(s, seed, pc)
        /\ SnapshotsAt(s, pc)
    BY <1>3, <1>4 DEF ProgramInv, OnTime
  <2>2. s' = s /\ seed' = seed /\ ThisScript' = ThisScript
    BY <1>1, SameRun
  <2> HIDE DEF s, seed
  <2>3. NodesAt(s, seed, pc)' /\ SnapshotsAt(s, pc)' /\ DeliveryAt(s, seed, pc)'
    BY <1>1, <1>3, <2>1, <2>2 DEF NodesAt, SnapshotsAt, DeliveryAt, History
  <2>4. ASSUME running' = "none" PROVE GraphsAt(s, seed, pc)'
    <3>1. \A n \in Node : message_queues[n] = <<>> /\ inbox[n] = {}
      BY <1>1, <1>3, <2>4 DEF Held, Inv, PassedAreDone
    <3>2. \A n \in Node : Coming(n) = {}
      BY <3>1, CarriedByNone DEF Coming
    <3>3. ASSUME NEW n \in Node
          PROVE  /\ graph[n] = EventsOf(s, seed, Arrived(s, pc, n))
                 /\ Coming(n) = EventsOf(s, seed, OnTheWay(s, pc, n))
      BY <2>1, <3>2, EventsOfOne DEF DeliveryAt
    <3>4. GraphsAt(s, seed, pc)
      BY <3>1, <3>3 DEF GraphsAt
    <3>5. UNCHANGED <<graph, inbox, message_queues>>
      BY <1>3, <2>4
    <3> QED
      BY <1>1, <2>2, <3>4, <3>5 DEF GraphsAt, Coming
  <2> QED
    BY <1>1, <2>1, <2>2, <2>3, <2>4 DEF OnTime, s, seed
<1> QED
  BY <1>2, <1>3, <1>5, <1>6, <1>7 DEF ProgramInv

\* The rounds so far stay what they are when a call takes no snapshot.
LEMMA RoundsStay ==
  ASSUME NEW s, NEW p, SnapshotsAt(s, p), RoundsKept(s, p), UNCHANGED snapshots
  PROVE  SnapshotsAt(s, p + 1)'
BY DEF SnapshotsAt, RoundsKept

\* A snapshot adds the round of the timetable.
LEMMA RoundAdded ==
  ASSUME NEW s \in Names, NEW r \in 1 .. Rounds(s), NEW p, p = SnapshotAt(s, r), SnapshotsAt(s, p),
         snapshots' = Append(snapshots, Unstamped(s, r))
  PROVE  SnapshotsAt(s, p + 1)'
<1> DEFINE T == {Unstamped(s, k) : k \in 1 .. Rounds(s)}
           x == Unstamped(s, r)
<1>1. /\ snapshots \in Seq(T) /\ DOMAIN snapshots = 1 .. r - 1 /\ x \in T
      /\ \A k \in DOMAIN snapshots : snapshots[k] = Unstamped(s, k)
      /\ RoundsTaken(s, p + 1) = 1 .. r /\ Rounds(s) \in Nat
  BY SnapshotTime DEF SnapshotsAt, Rounds, IdleRounds
<1> HIDE DEF T, x
<1>2. Len(snapshots) = r - 1
  BY <1>1
<1>3. /\ Append(snapshots, x) \in Seq(T) /\ DOMAIN Append(snapshots, x) = 1 .. r
      /\ Append(snapshots, x)[r] = x /\ \A k \in 1 .. r - 1 : Append(snapshots, x)[k] = snapshots[k]
  BY <1>1, <1>2
<1>4. \A k \in 1 .. r : Append(snapshots, x)[k] = Unstamped(s, k)
  BY <1>1, <1>3 DEF x
<1>5. snapshots' = Append(snapshots, x)
  BY DEF x
<1> QED
  BY <1>1, <1>3, <1>4, <1>5 DEF SnapshotsAt, T

\* A call of the timetable is on time.
LEMMA ScriptCallOnTime ==
  ASSUME ProgramInv, NEW s \in Names, NEW seed \in Nat, NEW p \in Nat \ {0}, running = "none",
         NodesAt(s, seed, p), GraphsAt(s, seed, p), SnapshotsAt(s, p), ScriptCall(s, seed, p)
  PROVE  /\ NodesAt(s, seed, p + 1)' /\ SnapshotsAt(s, p + 1)'
         /\ running' = "none" => GraphsAt(s, seed, p + 1)'
         /\ running' # "none" => DeliveryAt(s, seed, p + 1)'
         /\ ShortQueues' /\ UNCHANGED <<rng, delivered>>
<1> DEFINE Goal == /\ NodesAt(s, seed, p + 1)' /\ SnapshotsAt(s, p + 1)'
                   /\ running' = "none" => GraphsAt(s, seed, p + 1)'
                   /\ running' # "none" => DeliveryAt(s, seed, p + 1)'
                   /\ ShortQueues' /\ UNCHANGED <<rng, delivered>>
<1>1. Held /\ Accounted /\ delivered = 0 /\ ShortQueues
  BY DEF ProgramInv, BetweenRuns
<1>2. ASSUME UNCHANGED snapshots, NEW i \in Number, p = StagedAt(s, i), Idle,
             Stage(Author(s, i), KindOf(s, i), TaskOf(s, i), ParentsOf(s, seed, i)),
             UNCHANGED <<message_queues, partitioned, messages_delivered, sent>>
      PROVE  Goal
  <2>1. NodesAt(s, seed, p + 1)' /\ GraphsAt(s, seed, p + 1)'
    BY <1>1, <1>2, StagingOnTime
  <2>2. SnapshotsAt(s, p + 1)'
    BY <1>2, StagingTime, RoundsStay
  <2> QED
    BY <1>1, <1>2, <2>1, <2>2 DEF Idle, callVars, ShortQueues
<1>3. ASSUME UNCHANGED snapshots, NEW i \in Number, p = SentAt(s, i), Send(Author(s, i), Receivers(s, i))
      PROVE  Goal
  <2>1. NodesAt(s, seed, p + 1)' /\ GraphsAt(s, seed, p + 1)' /\ ShortQueues'
    BY <1>1, <1>3, SendingOnTime
  <2>2. SnapshotsAt(s, p + 1)'
    BY <1>3, SendingTime, RoundsStay
  <2> QED
    BY <1>3, <2>1, <2>2 DEF Send, Idle, callVars
<1>4. ASSUME UNCHANGED snapshots, NEW n \in Node,
             \/ p = CutAt(s, n) /\ Partition(n)
             \/ p = HealedAt(s, n) /\ Heal(n)
      PROVE  Goal
  <2>1. NodesAt(s, seed, p + 1)' /\ GraphsAt(s, seed, p + 1)'
    BY <1>4, LinksOnTime
  <2>2. SnapshotsAt(s, p + 1)'
    BY <1>4, CuttingTime, HealingTime, RoundsStay
  <2>3. UNCHANGED <<message_queues, rng, running, delivered>>
    BY <1>4 DEF Partition, Heal, Idle, callVars
  <2> QED
    BY <1>1, <2>1, <2>2, <2>3 DEF ShortQueues
<1>5. ASSUME UNCHANGED snapshots, s \in Partitions, p = 11 + IdleCalls(s), CatchUp(0, 2) PROVE Goal
  <2>1. NodesAt(s, seed, p + 1)' /\ GraphsAt(s, seed, p + 1)'
    BY <1>1, <1>5, BacklogOnTime
  <2>2. SnapshotsAt(s, p + 1)'
    BY <1>5, BacklogTime, RoundsStay
  <2>3. UNCHANGED <<message_queues, rng, running, delivered>>
    BY <1>5 DEF CatchUp, Idle, callVars
  <2> QED
    BY <1>1, <2>1, <2>2, <2>3 DEF ShortQueues
<1>6. ASSUME UNCHANGED snapshots, NEW r \in 1 .. Rounds(s), p = SnapshotAt(s, r) - 1,
             BeginDelivery \/ BeginShuffle
      PROVE  Goal
  <2>1. NodesAt(s, seed, p + 1)' /\ DeliveryAt(s, seed, p + 1)'
    BY <1>6, DeliveryOnTime
  <2>2. SnapshotsAt(s, p + 1)'
    BY <1>6, DeliveryTime, RoundsStay
  <2>3. UNCHANGED <<message_queues, rng, delivered>> /\ running' # "none"
    BY <1>6 DEF BeginDelivery, BeginShuffle
  <2> QED
    BY <1>1, <2>1, <2>2, <2>3 DEF ShortQueues
<1>7. ASSUME NEW r \in 1 .. Rounds(s), p = SnapshotAt(s, r),
             snapshots' = Append(snapshots, CollectMetrics), UNCHANGED vars
      PROVE  Goal
  <2>1. snapshots' = Append(snapshots, Unstamped(s, r))
    BY <1>1, <1>7, MetricsOnTime
  <2>2. SnapshotsAt(s, p + 1)'
    BY <1>7, <2>1, RoundAdded
  <2>3. /\ StagingKept(s, p) /\ TravelKept(s, p) /\ LinksKept(s, p) /\ CopiesKept(s, p)
        /\ NothingJustSent(s, p)
    BY <1>7, SnapshotTime
  <2>4. /\ UNCHANGED <<graph, outbox, inbox, next, issued, message_queues, partitioned, sent, running, rng,
                       delivered>>
    BY <1>7 DEF vars, nodeVars, deliveryVars, callVars
  <2>5. NodesAt(s, seed, p + 1)'
    BY <2>3, <2>4 DEF NodesAt, History, StagingKept, LinksKept, CopiesKept
  <2>6. GraphsAt(s, seed, p + 1)'
    BY <2>3, <2>4 DEF GraphsAt, Coming, TravelKept
  <2> QED
    BY <1>1, <2>2, <2>4, <2>5, <2>6 DEF ShortQueues
<1> HIDE DEF Goal
<1>8. Goal
  BY <1>2, <1>3, <1>4, <1>5, <1>6, <1>7 DEF ScriptCall
<1> QED
  BY <1>8 DEF Goal

\* A step of a script is on time.
LEMMA ScriptKeepsInv == ASSUME ProgramInv, ScriptStep PROVE ProgramInv'
<1>1. PICK s, seed, p : s = ThisRun.scenario /\ seed = ThisRun.seed /\ p = pc
  OBVIOUS
<1>2. Running /\ running = "none" /\ p \in Nat \ {0} /\ ScriptCall(s, seed, p)
  BY <1>1, ScriptMoves
<1>3. /\ s \in Names /\ seed \in Nat /\ Follows(ThisScript, s, seed) /\ p \in DOMAIN ThisScript
  BY <1>1, ThisRunIs DEF ScriptStep, ProgramInv
<1>4. NodesAt(s, seed, p) /\ GraphsAt(s, seed, p) /\ SnapshotsAt(s, p)
  BY <1>1, <1>2 DEF ProgramInv, OnTime
<1>5. Held' /\ Accounted' /\ DrawnInQueue'
  BY <1>2, <1>3, <1>4, ScriptCallsAreOffered, DeliveryKept DEF ProgramInv
<1>6. /\ NodesAt(s, seed, p + 1)' /\ SnapshotsAt(s, p + 1)'
      /\ running' = "none" => GraphsAt(s, seed, p + 1)'
      /\ running' # "none" => DeliveryAt(s, seed, p + 1)'
      /\ ShortQueues' /\ UNCHANGED <<rng, delivered>>
  BY <1>2, <1>3, <1>4, ScriptCallOnTime
<1>7. UNCHANGED <<job, summaries>> /\ pc' = p + 1
  BY <1>1 DEF ScriptStep
<1>8. /\ ThisRun' = ThisRun /\ ThisScript' = ThisScript /\ Finished' = Finished /\ SummariesOnTime'
  BY <1>7, SameRun DEF ProgramInv
<1>9. Running' /\ p + 1 \in Nat \ {0}
  BY <1>2, <1>7, <1>8 DEF Running
<1>10. p + 1 \in 1 .. Len(ThisScript) + 1
  BY <1>3, StartingTime DEF Follows
<1>11. OnTime'
  BY <1>1, <1>6, <1>7, <1>8, <1>10 DEF OnTime
<1>12. RngUntouched'
  BY <1>2, <1>6, <1>8 DEF ProgramInv, RngUntouched
<1>13. BetweenRuns'
  BY <1>2, <1>6, <1>7, <1>8, <1>9 DEF ProgramInv, BetweenRuns, Running
<1> QED
  BY <1>5, <1>6, <1>8, <1>11, <1>12, <1>13 DEF ProgramInv

\* A run begins with a new simulation, before the first call of its script.
LEMMA StartKeepsInv == ASSUME ProgramInv, Start PROVE ProgramInv'
<1>1. PICK s, seed : s = ThisRun.scenario /\ seed = ThisRun.seed
  OBVIOUS
<1>2. /\ s \in Names /\ seed \in 1 .. LastSeed /\ seed \in Nat /\ Follows(ThisScript, s, seed)
  BY <1>1, ThisRunIs DEF Start, ProgramInv
<1>3. /\ ~Finished /\ pc = 0 /\ running = "none"
      /\ UNCHANGED <<running, waiting, drawn, delivered, job, summaries>>
      /\ pc' = 1 /\ snapshots' = <<>>
      /\ graph' = [n \in Node |-> {}] /\ outbox' = [n \in Node |-> {}] /\ inbox' = [n \in Node |-> {}]
      /\ next' = seed /\ issued' = {}
      /\ message_queues' = [n \in Node |-> <<>>] /\ partitioned' = {}
      /\ rng' = New(Binary(seed)) /\ messages_delivered' = 0 /\ sent' = 0
  BY <1>1 DEF Start, NewSimulation, ProgramInv, BetweenRuns
<1>4. /\ ThisRun' = ThisRun /\ ThisScript' = ThisScript /\ Finished' = Finished /\ SummariesOnTime'
  BY <1>3, SameRun DEF ProgramInv
<1>5. Inv'
  <2>1. rng' \in Word /\ rng' # Zero
    <3>1. Binary(seed) \in Word
      BY DEF Binary, Word, Bit, SeedBits
    <3> QED
      BY <1>3, <3>1, NewIsNotZero
  <2>2. next' \in Seed .. Seed + MaxEvents
    BY <1>2, <1>3, ProgramAssumption, CounterAssumption
  <2>3. NodeTypeOK'
    BY <1>3, <2>2 DEF NodeTypeOK
  <2>4. message_queues' \in [Node -> Seq(Message)] /\ sent' \in 0 .. MaxMessages
    BY <1>3, DeliveryAssumption
  <2> QED
    BY <1>3, <2>1, <2>3, <2>4 DEF ProgramInv, Held, Inv, TypeOK, RngNeverZero, PassedAreDone
<1>6. \A n \in Node : /\ graph'[n] = {} /\ outbox'[n] = {} /\ inbox'[n] = {}
                      /\ message_queues'[n] = <<>> /\ Carried(message_queues'[n]) = {}
  BY <1>3, CarriedByNone
<1>7. Held'
  <2>1. HistoryInv'
    BY <1>3 DEF HistoryInv, IdsDrawn, IdsOnce, PastOlder, PastClosed, PastLeast
  <2>2. HeldIssued'
    BY <1>6 DEF HeldIssued
  <2> QED
    BY <1>5, <2>1, <2>2 DEF Held
<1>8. delivered = 0 /\ drawn = 0
  BY <1>3 DEF ProgramInv, BetweenRuns, DrawnInQueue, AtTurn
<1>9. Accounted' /\ DrawnInQueue'
  <2>1. PlacesOf(Node)' = {}
    BY <1>6 DEF PlacesOf
  <2>2. InFlight' = 0
    BY <2>1, FS_EmptySet DEF InFlight
  <2> QED
    BY <1>3, <1>8, <2>2 DEF Accounted, DrawnInQueue
<1>10. ShortQueues' /\ RngUntouched' /\ BetweenRuns'
  <2>1. Len(<<>>) = 0
    OBVIOUS
  <2>2. ShortQueues'
    BY <1>6, <2>1 DEF ShortQueues
  <2>3. RngUntouched'
    BY <1>1, <1>3, <1>4 DEF RngUntouched
  <2>4. BetweenRuns'
    BY <1>3, <1>4, <1>8 DEF BetweenRuns
  <2> QED
    BY <2>2, <2>3, <2>4
<1>11. /\ Staged(s, 1) = {} /\ CutOff(s, 1) = {} /\ CopiesSent(s, 1) = 0 /\ RoundsTaken(s, 1) = {}
       /\ \A n \in Node : Unsent(s, 1, n) = {} /\ OnTheWay(s, 1, n) = {} /\ Arrived(s, 1, n) = {}
       /\ EventsOf(s, seed, {}) = {}
  BY <1>2, StartingTime, EventsOfOne
<1>12. NodesAt(s, seed, 1)'
  <2>1. History' = {}
    BY <1>3 DEF History
  <2>2. ASSUME NEW i \in Number, {} = 1 .. i - 1 PROVE seed = Drawn(seed, i)
    <3>1. i = 1
      BY <2>2 DEF Number
    <3> QED
      BY <1>2, <3>1 DEF Drawn
  <2> QED
    BY <1>3, <1>11, <2>1, <2>2 DEF NodesAt
<1>13. GraphsAt(s, seed, 1)'
  BY <1>6, <1>11 DEF GraphsAt, Coming
<1>14. SnapshotsAt(s, 1)'
  BY <1>3, <1>11 DEF SnapshotsAt
<1>15. 1 \in 1 .. Len(ThisScript) + 1
  BY <1>2, StartingTime DEF Follows
<1>16. OnTime'
  BY <1>1, <1>3, <1>4, <1>12, <1>13, <1>14, <1>15 DEF OnTime
<1> QED
  BY <1>4, <1>7, <1>9, <1>10, <1>16 DEF ProgramInv

\* The recorded rounds are a sequence.
LEMMA RecordedSequence ==
  ASSUME NEW s \in Names, TRUE
  PROVE  Recorded(s) = [r \in 1 .. Rounds(s) |-> RoundOf(s, r)]
<1>1. \E T : Recorded(s) \in Seq(T)
  <2>1. \A x, y, z : <<x, y, z>> \in Seq({x, y, z})
    OBVIOUS
  <2>2. CASE s \in Chains
    BY <2>1, <2>2 DEF Recorded, RecordedChain, Chains
  <2>3. CASE s = "high_contention"
    BY <2>1, <2>3 DEF Recorded, RecordedContention
  <2>4. CASE s \in Partitions
    <3>1. ASSUME NEW i \in Nat, NEW x, NEW y, NEW z
          PROVE  <<x>> \o [k \in 1 .. i + 1 |-> y] \o <<z>> \in Seq({x, y, z})
      <4>1. [k \in 1 .. i + 1 |-> y] \in Seq({x, y, z}) /\ <<x>> \in Seq({x, y, z}) /\ <<z>> \in Seq({x, y, z})
        OBVIOUS
      <4> QED
        BY <4>1
    <3>2. \A i \in Nat : \E T : RecordedPartition(i) \in Seq(T)
      <4> SUFFICES ASSUME NEW i \in Nat PROVE \E T : RecordedPartition(i) \in Seq(T)
        OBVIOUS
      <4>1. PICK x, y, z : RecordedPartition(i) = <<x>> \o [k \in 1 .. i + 1 |-> y] \o <<z>>
        BY DEF RecordedPartition
      <4>2. <<x>> \o [k \in 1 .. i + 1 |-> y] \o <<z>> \in Seq({x, y, z})
        BY <3>1
      <4> QED
        BY <4>1, <4>2
    <3>3. Recorded(s) = RecordedPartition(IdleRounds(s)) /\ IdleRounds(s) \in Nat
      BY <2>4 DEF Recorded, Partitions, IdleRounds
    <3> QED
      BY <3>2, <3>3
  <2> QED
    BY <2>2, <2>3, <2>4 DEF Names
<1>2. \A T : \A q \in Seq(T) : q = [k \in DOMAIN q |-> q[k]]
  OBVIOUS
<1>3. Recorded(s) = [k \in DOMAIN Recorded(s) |-> Recorded(s)[k]]
  BY <1>1, <1>2
<1> QED
  BY <1>3, RecordedIs

\* The first round where the nodes agree.
LEMMA FirstAgreement ==
  ASSUME NEW s \in Names, NEW metrics, DOMAIN metrics = 1 .. Rounds(s),
         \A r \in 1 .. Rounds(s) : metrics[r].converged = Agree(s, r)
  PROVE  FindConvergenceRound(metrics) = IF s \in Partitions THEN Rounds(s) ELSE 1
<1> DEFINE rounds == {k \in DOMAIN metrics : metrics[k].converged}
           first == IF s \in Partitions THEN Rounds(s) ELSE 1
<1>1. rounds = {r \in 1 .. Rounds(s) : Agree(s, r)} /\ Rounds(s) \in Nat \ {0}
  BY DEF Rounds, IdleRounds
<1>2. first \in rounds /\ first \in Int /\ \A r \in rounds : r \in Int /\ first =< r
  BY <1>1 DEF Agree
<1> HIDE DEF rounds, first
<1>3. Min(rounds) = first
  <2>1. Min(rounds) \in rounds /\ \A r \in rounds : Min(rounds) =< r
    BY <1>2 DEF Min
  <2>2. Min(rounds) \in Int /\ first =< Min(rounds)
    BY <1>2, <2>1
  <2>3. Min(rounds) =< first
    BY <1>2, <2>1
  <2> QED
    BY <1>2, <2>2, <2>3
<1> QED
  BY <1>2, <1>3 DEF FindConvergenceRound, rounds, first

\* A run's rounds, once stamped, are the recorded ones.
LEMMA StampedAreRecorded ==
  ASSUME NEW s \in Names, NEW metrics, DOMAIN metrics = 1 .. Rounds(s),
         \A r \in 1 .. Rounds(s) : metrics[r] = Unstamped(s, r)
  PROVE  StampConvergenceRound(metrics) = Recorded(s)
<1> DEFINE round == IF s \in Partitions THEN Rounds(s) ELSE 1
<1>1. ASSUME NEW r \in 1 .. Rounds(s)
      PROVE  /\ metrics[r].converged = Agree(s, r)
             /\ [metrics[r] EXCEPT !.convergence_round = round] = RoundOf(s, r)
  <2>1. PICK events, conflicts, edges :
          RoundOf(s, r) = Snapshot(Delivered(s, r), events, conflicts, edges, Agree(s, r), round)
    BY DEF RoundOf
  <2> HIDE DEF round
  <2>2. metrics[r] = [RoundOf(s, r) EXCEPT !.convergence_round = None]
    BY RecordedIs DEF Unstamped
  <2>3. metrics[r] = Snapshot(Delivered(s, r), events, conflicts, edges, Agree(s, r), None)
    BY <2>1, <2>2 DEF Snapshot
  <2>4. metrics[r].converged = Agree(s, r)
    BY <2>3 DEF Snapshot
  <2>5. [metrics[r] EXCEPT !.convergence_round = round] = RoundOf(s, r)
    BY <2>1, <2>3 DEF Snapshot
  <2> QED
    BY <2>4, <2>5
<1>2. FindConvergenceRound(metrics) = round
  BY <1>1, FirstAgreement
<1> HIDE DEF round
<1>3. StampConvergenceRound(metrics) = [r \in 1 .. Rounds(s) |-> RoundOf(s, r)]
  BY <1>1, <1>2 DEF StampConvergenceRound
<1> QED
  BY <1>3, RecordedSequence

\* At the end of a run everything has happened as the timetable says.
LEMMA EndOnTime ==
  ASSUME ProgramInv, AtEnd
  PROVE  /\ job \in DOMAIN Jobs /\ ThisRun.scenario \in Names /\ ThisRun.seed \in Nat
         /\ NodesAt(ThisRun.scenario, ThisRun.seed, SnapshotAt(ThisRun.scenario, Rounds(ThisRun.scenario)) + 1)
         /\ GraphsAt(ThisRun.scenario, ThisRun.seed, SnapshotAt(ThisRun.scenario, Rounds(ThisRun.scenario)) + 1)
         /\ StampConvergenceRound(snapshots) = Recorded(ThisRun.scenario)
<1>1. PICK s, seed, p : s = ThisRun.scenario /\ seed = ThisRun.seed /\ p = SnapshotAt(s, Rounds(s)) + 1
  OBVIOUS
<1>2. /\ s \in Names /\ seed \in Nat /\ job \in DOMAIN Jobs /\ Len(ThisScript) = SnapshotAt(s, Rounds(s))
      /\ SnapshotAt(s, Rounds(s)) \in Nat
  BY <1>1, ThisRunIs, StartingTime DEF AtEnd, ProgramInv, Follows
<1>3. Running /\ running = "none"
  BY <1>2 DEF AtEnd, Running, ProgramInv, BetweenRuns
<1>4. pc = p
  BY <1>1, <1>2, <1>3 DEF AtEnd, ProgramInv, OnTime
<1>5. NodesAt(s, seed, p) /\ GraphsAt(s, seed, p) /\ SnapshotsAt(s, p)
  BY <1>1, <1>3, <1>4 DEF ProgramInv, OnTime
<1>6. RoundsTaken(s, p) = 1 .. Rounds(s)
  BY <1>1, <1>2, EndingTime
<1>7. StampConvergenceRound(snapshots) = Recorded(s)
  BY <1>2, <1>5, <1>6, StampedAreRecorded DEF SnapshotsAt
<1> QED
  BY <1>1, <1>2, <1>5, <1>7

\* No scenario's nodes come apart again.
LEMMA RecordedLasts ==
  ASSUME NEW s \in Names, NEW j \in 1 .. Rounds(s), NEW k \in 1 .. Rounds(s), j < k
  PROVE  /\ Recorded(s)[j].converged => Recorded(s)[k].converged
         /\ Unstamped(s, j).converged => Unstamped(s, k).converged
<1>1. \A r \in 1 .. Rounds(s) : Recorded(s)[r] = RoundOf(s, r) /\ RoundOf(s, r).converged = Agree(s, r)
  BY RecordedIs DEF RoundOf, Snapshot
<1>2. \A r \in 1 .. Rounds(s) : Unstamped(s, r).converged = Agree(s, r)
  <2> SUFFICES ASSUME NEW r \in 1 .. Rounds(s) PROVE Unstamped(s, r).converged = Agree(s, r)
    OBVIOUS
  <2>1. PICK messages, events, conflicts, edges, round :
          RoundOf(s, r) = Snapshot(messages, events, conflicts, edges, Agree(s, r), round)
    BY DEF RoundOf
  <2> QED
    BY <1>1, <2>1 DEF Unstamped, Snapshot
<1>3. Agree(s, j) => Agree(s, k)
  BY DEF Agree, Rounds, IdleRounds
<1> QED
  BY <1>1, <1>2, <1>3

\* The rounds end with their last.
LEMMA RoundsAre == ASSUME NEW s, TRUE PROVE Rounds(s) \in Nat \ {0}
BY DEF Rounds, IdleRounds

\* A run ends with its results as recorded, and leaves nothing to the next.
LEMMA ReturnKeepsInv == ASSUME ProgramInv, Return PROVE ProgramInv'
<1>1. PICK s, seed, p : s = ThisRun.scenario /\ seed = ThisRun.seed /\ p = SnapshotAt(s, Rounds(s)) + 1
  OBVIOUS
<1>2. /\ s \in Names /\ seed \in Nat /\ job \in DOMAIN Jobs
      /\ NodesAt(s, seed, p) /\ StampConvergenceRound(snapshots) = Recorded(s)
  BY <1>1, EndOnTime DEF Return
<1>3. /\ snapshots' = Recorded(s) /\ pc' = 0 /\ job' = job + 1 /\ UNCHANGED vars /\ running = "none"
      /\ summaries' = IF ThisRun.multi
                      THEN Append(summaries, Summary(ThisRun, Recorded(s)[Len(Recorded(s))]))
                      ELSE summaries
  BY <1>2 DEF Return, AtEnd
<1>4. Held' /\ Accounted' /\ DrawnInQueue'
  BY <1>3, DeliveryKept DEF ProgramInv
<1>5. UNCHANGED <<running, partitioned, delivered, message_queues>>
  BY <1>3 DEF vars, nodeVars, deliveryVars, callVars
<1>6. ShortQueues' /\ ~Running'
  BY <1>3, <1>5 DEF ProgramInv, ShortQueues, Running
<1>7. OnTime' /\ RngUntouched'
  BY <1>6 DEF OnTime, RngUntouched
<1>8. BetweenRuns'
  <2>1. partitioned = {}
    BY <1>1, <1>2, EndingTime DEF NodesAt
  <2>2. ConvergenceLasts'
    BY <1>2, <1>3, RecordedLasts, RecordedIs DEF ConvergenceLasts
  <2> QED
    BY <1>3, <1>5, <2>1, <2>2 DEF ProgramInv, BetweenRuns
<1>9. SummariesOnTime'
  <2> DEFINE M == 5 * LastSeed
             T == {SummaryOf(Jobs[j]) : j \in DOMAIN Jobs}
             x == SummaryOf(ThisRun)
  <2>1. /\ M \in Nat /\ Len(Jobs) = 5 + M /\ DOMAIN Jobs = 1 .. 5 + M /\ job \in 1 .. 5 + M
        /\ x \in T /\ ThisRun = Jobs[job]
    BY <1>2, RunsAre, ProgramAssumption DEF ThisRun
  <2>2. /\ summaries \in Seq(T) /\ DOMAIN summaries = {k \in 1 .. M : k + 5 < job}
        /\ \A k \in DOMAIN summaries : summaries[k] = SummaryOf(Jobs[k + 5])
    BY DEF ProgramInv, SummariesOnTime
  <2>3. ThisRun.multi <=> job > 5
    <3>1. job =< 5 => ~ThisRun.multi
      BY <2>1, RunsAre
    <3>2. job > 5 => ThisRun.multi
      <4> SUFFICES ASSUME job > 5 PROVE Jobs[job].multi
        BY <2>1
      <4>1. job - 5 \in 1 .. M /\ (job - 5) + 5 = job
        BY <2>1
      <4>2. ASSUME NEW k \in 1 .. M PROVE Jobs[k + 5].multi
        <5>1. Jobs[k + 5] = [scenario |-> Scenario[(k - 1) \div LastSeed + 1],
                             seed |-> ((k - 1) % LastSeed) + 1, multi |-> TRUE]
          BY RunsAre
        <5> QED
          BY <5>1
      <4> QED
        BY <4>1, <4>2
    <3> QED
      BY <2>1, <3>1, <3>2
  <2>4. Summary(ThisRun, Recorded(s)[Len(Recorded(s))]) = x
    BY <1>1, <1>2, RecordedIs DEF SummaryOf
  <2> HIDE DEF M, T, x
  <2>5. job' \in 1 .. Len(Jobs) + 1
    BY <1>3, <2>1
  <2>6. CASE job =< 5
    <3>1. summaries' = summaries
      BY <1>3, <2>1, <2>3, <2>6
    <3>2. {k \in 1 .. M : k + 5 < job} = {} /\ {k \in 1 .. M : k + 5 < job'} = {}
      BY <1>3, <2>1, <2>6
    <3> QED
      BY <2>2, <2>5, <3>1, <3>2 DEF SummariesOnTime, M, T
  <2>7. CASE job > 5
    <3>1. summaries' = Append(summaries, x)
      BY <1>3, <2>3, <2>4, <2>7
    <3>2. {k \in 1 .. M : k + 5 < job} = 1 .. job - 6 /\ {k \in 1 .. M : k + 5 < job'} = 1 .. job - 5
      BY <1>3, <2>1, <2>7
    <3>3. Len(summaries) = job - 6
      <4>1. Len(summaries) \in Nat /\ DOMAIN summaries = 1 .. Len(summaries)
        <5>1. summaries \in Seq(T)
          BY <2>2
        <5> QED
          BY <5>1
      <4>2. DOMAIN summaries = 1 .. job - 6
        BY <2>2, <3>2
      <4>3. job - 6 \in Nat
        BY <2>1, <2>7
      <4> QED
        BY <4>1, <4>2, <4>3
    <3>4. /\ Append(summaries, x) \in Seq(T) /\ DOMAIN Append(summaries, x) = 1 .. job - 5
          /\ Append(summaries, x)[job - 5] = x
          /\ \A k \in 1 .. job - 6 : Append(summaries, x)[k] = summaries[k]
      BY <2>1, <2>2, <2>7, <3>2, <3>3
    <3>5. x = SummaryOf(Jobs[(job - 5) + 5])
      <4>1. (job - 5) + 5 = job
        BY <2>1
      <4> QED
        BY <2>1, <4>1 DEF x
    <3>6. \A k \in 1 .. job - 5 : Append(summaries, x)[k] = SummaryOf(Jobs[k + 5])
      <4> SUFFICES ASSUME NEW k \in 1 .. job - 5 PROVE Append(summaries, x)[k] = SummaryOf(Jobs[k + 5])
        OBVIOUS
      <4>1. CASE k = job - 5
        BY <3>4, <3>5, <4>1
      <4>2. CASE k # job - 5
        <5>1. k \in 1 .. job - 6
          BY <2>1, <2>7, <4>2
        <5> QED
          BY <2>2, <3>2, <3>4, <5>1
      <4> QED
        BY <4>1, <4>2
    <3> QED
      BY <2>5, <3>1, <3>2, <3>4, <3>6 DEF SummariesOnTime, M, T
  <2> QED
    BY <2>1, <2>6, <2>7
<1> QED
  BY <1>4, <1>6, <1>7, <1>8, <1>9 DEF ProgramInv

-----------------------------------------------------------------------------
(* The summaries --------------------------------------------------------- *)

\* The round that a scenario settles in.
SettledIn(s) == IF s \in Partitions THEN Rounds(s) ELSE 1

\* It is on record with every round.
LEMMA SettledIsRecorded ==
  ASSUME NEW s \in Names, NEW r \in 1 .. Rounds(s)
  PROVE  Recorded(s)[r].convergence_round = SettledIn(s)
<1>1. Recorded(s)[r] = RoundOf(s, r)
  BY RecordedIs
<1>2. RoundOf(s, r).convergence_round = SettledIn(s)
  BY DEF RoundOf, Snapshot, SettledIn
<1> QED
  BY <1>1, <1>2

\* A summary gives the convergence round that its scenario's last round records.
LEMMA SummaryIs ==
  ASSUME NEW run, run.scenario \in Names
  PROVE  /\ SummaryOf(run).scenario = run.scenario
         /\ SummaryOf(run).convergence_round = SettledIn(run.scenario)
<1> DEFINE last == Recorded(run.scenario)[Rounds(run.scenario)]
<1>1. last.convergence_round = SettledIn(run.scenario)
  BY SettledIsRecorded, RoundsAre
<1> HIDE DEF last
<1>2. /\ Summary(run, last).scenario = run.scenario
      /\ Summary(run, last).convergence_round = last.convergence_round
  BY DEF Summary
<1> QED
  BY <1>1, <1>2 DEF SummaryOf, last

\* The least and the greatest of one number.
LEMMA OneNumber == ASSUME NEW x \in Nat PROVE Min({x}) = x /\ Max({x}) = x
BY DEF Min, Max

\* At the end every scenario has been run with all the seeds, and has always settled
\* in the recorded round.
LEMMA AggregateOnTime ==
  ASSUME ProgramInv, Finished, NEW i \in DOMAIN Scenario
  PROVE  LET round == Recorded(Scenario[i])[1].convergence_round
         IN  Aggregate(Scenario[i]) = [min |-> round, max |-> round, always_converged |-> TRUE]
<1> DEFINE s == Scenario[i]
           M == 5 * LastSeed
           all == {summaries[k] : k \in {l \in DOMAIN summaries : summaries[l].scenario = s}}
           rounds == {x.convergence_round : x \in all} \ {None}
<1>1. i \in 1 .. 5 /\ s \in Names /\ LastSeed \in Nat \ {0} /\ M \in Nat
  BY ProgramAssumption DEF Scenario, Names, Chains, Partitions
<1>2. /\ DOMAIN summaries = 1 .. M
      /\ \A k \in 1 .. M : summaries[k] = SummaryOf(Jobs[k + 5])
  <2>1. /\ Len(Jobs) = 5 + M /\ job \in 1 .. Len(Jobs) + 1 /\ job > Len(Jobs)
        /\ DOMAIN summaries = {k \in 1 .. M : k + 5 < job}
        /\ \A k \in DOMAIN summaries : summaries[k] = SummaryOf(Jobs[k + 5])
    BY RunsAre DEF ProgramInv, SummariesOnTime, Finished
  <2>2. {k \in 1 .. M : k + 5 < job} = 1 .. M
    BY <1>1, <2>1
  <2> QED
    BY <2>1, <2>2
<1> HIDE DEF s
<1>3. ASSUME NEW x \in all PROVE x.convergence_round = SettledIn(s)
  <2>1. PICK k \in 1 .. M : x = summaries[k] /\ summaries[k].scenario = s
    BY <1>2
  <2>2. x = SummaryOf(Jobs[k + 5]) /\ x.scenario = s
    BY <1>2, <2>1
  <2>3. Jobs[k + 5].scenario \in Names
    BY <1>1, RunsAre
  <2> QED
    BY <2>2, <2>3, SummaryIs
<1>4. all # {}
  <2> DEFINE k == (i - 1) * LastSeed + 1
  <2>1. k \in 1 .. M /\ (k - 1) \div LastSeed + 1 = i
    <3>1. /\ i - 1 \in 0 .. 4 /\ k - 1 = (i - 1) * LastSeed
          /\ ((i - 1) * LastSeed) \div LastSeed = i - 1
      BY <1>1
    <3>2. 0 =< (i - 1) * LastSeed /\ (i - 1) * LastSeed =< 4 * LastSeed /\ (i - 1) * LastSeed \in Int
      <4>1. \A a \in 0 .. 4 : /\ 0 =< a * LastSeed /\ a * LastSeed =< 4 * LastSeed
                              /\ a * LastSeed \in Int
        BY <1>1
      <4> QED
        BY <3>1, <4>1
    <3>3. k \in 1 .. M
      BY <1>1, <3>2
    <3>4. (k - 1) \div LastSeed + 1 = i
      <4>1. (k - 1) \div LastSeed = i - 1
        BY <3>1, Zenon
      <4> HIDE DEF k
      <4> QED
        BY <1>1, <4>1
    <3> QED
      BY <3>3, <3>4
  <2> HIDE DEF k
  <2>2. Jobs[k + 5] = [scenario |-> Scenario[(k - 1) \div LastSeed + 1],
                       seed |-> ((k - 1) % LastSeed) + 1, multi |-> TRUE]
    BY <2>1, RunsAre
  <2>3. Jobs[k + 5].scenario = s
    BY <2>1, <2>2 DEF s
  <2>4. summaries[k].scenario = s
    BY <1>1, <1>2, <2>1, <2>3, SummaryIs
  <2> QED
    BY <1>2, <2>1, <2>4
<1>5. SettledIn(s) \in Nat /\ SettledIn(s) # None
  BY RoundsAre, ProgramAssumption DEF SettledIn
<1>6. Recorded(s)[1].convergence_round = SettledIn(s)
  BY <1>1, RoundsAre, SettledIsRecorded
<1> HIDE DEF all
<1>7. rounds = {SettledIn(s)}
  BY <1>3, <1>4, <1>5
<1>8. (all # {} /\ \A x \in all : x.convergence_round # None) = TRUE
  BY <1>3, <1>4, <1>5
<1> HIDE DEF rounds
<1>9. rounds # {} /\ Min(rounds) = SettledIn(s) /\ Max(rounds) = SettledIn(s)
  BY <1>5, <1>7, OneNumber
<1>10. Aggregate(s) = [min |-> IF rounds = {} THEN None ELSE Min(rounds),
                       max |-> IF rounds = {} THEN None ELSE Max(rounds),
                       always_converged |-> all # {} /\ \A x \in all : x.convergence_round # None]
  BY DEF Aggregate, all, rounds
<1>11. Aggregate(s) = [min |-> SettledIn(s), max |-> SettledIn(s), always_converged |-> TRUE]
  BY <1>8, <1>9, <1>10
<1> QED
  BY <1>6, <1>11 DEF s

-----------------------------------------------------------------------------
(* The program ----------------------------------------------------------- *)

\* Before the first run there is nothing.
LEMMA InitEstablishesProgramInv == ASSUME ProgramInit PROVE ProgramInv
<1>1. Init /\ job = 1 /\ pc = 0 /\ snapshots = <<>> /\ summaries = <<>>
  BY DEF ProgramInit
<1>2. Held /\ Accounted /\ DrawnInQueue
  BY <1>1, InitEstablishesHeld, InitEstablishesAccounted DEF Init, DrawnInQueue
<1>3. ~Running
  BY <1>1 DEF Running
<1>4. ShortQueues
  <2>1. Len(<<>>) = 0
    OBVIOUS
  <2> QED
    BY <1>1, <2>1 DEF Init, ShortQueues
<1>5. Len(Jobs) \in Nat /\ 1 =< Len(Jobs)
  BY RunsAre, ProgramAssumption
<1>6. BetweenRuns
  BY <1>1 DEF Init, BetweenRuns, ConvergenceLasts
<1>7. SummariesOnTime
  <2> DEFINE T == {SummaryOf(Jobs[j]) : j \in DOMAIN Jobs}
  <2>1. {k \in 1 .. 5 * LastSeed : k + 5 < 1} = {}
    BY ProgramAssumption
  <2> HIDE DEF T
  <2>2. <<>> \in Seq(T) /\ DOMAIN <<>> = {}
    OBVIOUS
  <2> QED
    BY <1>1, <1>5, <2>1, <2>2 DEF SummariesOnTime, T
<1> QED
  BY <1>2, <1>3, <1>4, <1>6, <1>7 DEF ProgramInv, OnTime, RngUntouched

\* Doing nothing changes nothing.
LEMMA StutterKeepsProgramInv == ASSUME ProgramInv, UNCHANGED allVars PROVE ProgramInv'
<1>1. UNCHANGED vars /\ UNCHANGED <<job, pc, snapshots, summaries>>
  BY DEF allVars, programVars
<1>2. Held' /\ Accounted' /\ DrawnInQueue'
  BY <1>1, DeliveryKept DEF ProgramInv
<1>3. UNCHANGED <<graph, outbox, inbox, next, issued, message_queues, partitioned, sent, running, rng,
                  delivered>>
  BY <1>1 DEF vars, nodeVars, deliveryVars, callVars
<1>4. /\ ThisRun' = ThisRun /\ ThisScript' = ThisScript /\ Running' = Running /\ SummariesOnTime'
      /\ Finished' = Finished
  BY <1>1, SameRun DEF ProgramInv, Running
<1>5. ShortQueues' /\ RngUntouched' /\ BetweenRuns'
  BY <1>1, <1>3, <1>4 DEF ProgramInv, ShortQueues, RngUntouched, BetweenRuns, ConvergenceLasts
<1>6. OnTime'
  BY <1>1, <1>3, <1>4
  DEF ProgramInv, OnTime, NodesAt, GraphsAt, DeliveryAt, SnapshotsAt, History, Coming
<1> QED
  BY <1>2, <1>4, <1>5, <1>6 DEF ProgramInv

\* Every run, whatever its seed, follows the timetable of its scenario from its start
\* to its end, and leaves the recorded results.
THEOREM ProgramInvariance == ProgramSpec => []ProgramInv
<1>1. ProgramInv /\ [ProgramNext]_allVars => ProgramInv'
  BY StartKeepsInv, ScriptKeepsInv, LoopKeepsInv, ReturnKeepsInv, StutterKeepsProgramInv
  DEF ProgramNext
<1> QED
  BY InitEstablishesProgramInv, <1>1, PTL DEF ProgramSpec

\* Every run reproduces the numbers of the result files, round by round, and the
\* multi-seed files' summary over the seeds holds for any number of seeds.
THEOREM EveryRunMatches == ProgramSpec => []MatchesRecorded
<1>1. ProgramInv => MatchesRecorded
  BY EndOnTime, AggregateOnTime DEF MatchesRecorded
<1> QED
  BY <1>1, ProgramInvariance, PTL

\* Once the nodes of a run have converged, every later snapshot finds them converged.
THEOREM ConvergenceStays == ProgramSpec => []ConvergenceLasts
<1>1. ProgramInv => ConvergenceLasts
  <2> SUFFICES ASSUME ProgramInv PROVE ConvergenceLasts
    OBVIOUS
  <2>1. CASE pc = 0
    BY <2>1 DEF ProgramInv, BetweenRuns
  <2>2. CASE pc # 0
    <3>1. PICK s, p : s = ThisRun.scenario /\ p = pc
      OBVIOUS
    <3>2. Running /\ ~Finished
      BY <2>2 DEF ProgramInv, BetweenRuns, Running
    <3>3. s \in Names /\ SnapshotsAt(s, p)
      BY <3>1, <3>2, ThisRunIs DEF ProgramInv, OnTime
    <3>4. \A r \in DOMAIN snapshots : r \in 1 .. Rounds(s) /\ snapshots[r] = Unstamped(s, r)
      BY <3>3 DEF SnapshotsAt, RoundsTaken
    <3> QED
      BY <3>3, <3>4, RecordedLasts DEF ConvergenceLasts
  <2> QED
    BY <2>1, <2>2
<1> QED
  BY <1>1, ProgramInvariance, PTL

\* A run ends with every event in every graph, nothing on its way and nobody cut off.
THEOREM RunsEndSettled == ProgramSpec => []EndsSettled
<1>1. ProgramInv => EndsSettled
  <2> SUFFICES ASSUME ProgramInv, AtEnd
               PROVE  /\ \A n \in Node : /\ graph[n] = History /\ outbox[n] = {}
                                         /\ inbox[n] = {} /\ message_queues[n] = <<>>
                      /\ partitioned = {}
    BY DEF EndsSettled
  <2>1. PICK s, seed, p : s = ThisRun.scenario /\ seed = ThisRun.seed /\ p = SnapshotAt(s, Rounds(s)) + 1
    OBVIOUS
  <2>2. s \in Names /\ NodesAt(s, seed, p) /\ GraphsAt(s, seed, p)
    BY <2>1, EndOnTime
  <2>3. /\ Staged(s, p) = Number /\ CutOff(s, p) = {} /\ NothingJustSent(s, p)
        /\ \A n \in Node : Unsent(s, p, n) = {} /\ OnTheWay(s, p, n) = {} /\ Arrived(s, p, n) = Number
    BY <2>1, <2>2, EndingTime
  <2> QED
    BY <2>2, <2>3, EventsOfOne DEF NodesAt, GraphsAt, Coming
<1> QED
  BY <1>1, ProgramInvariance, PTL

\* While a node is cut off, no step of the program changes its graph: its scenario
\* has left nothing on the way to it.
THEOREM CutOffNodesStay == ProgramSpec => CutOffGetsNothing
<1>1. ASSUME ProgramInv, ProgramNext, NEW n \in partitioned PROVE graph'[n] = graph[n]
  <2>1. n \in Node
    BY <1>1 DEF ProgramInv, Held, Inv, TypeOK
  <2>2. CASE Start
    BY <1>1, <2>2 DEF Start, ProgramInv, BetweenRuns
  <2>3. CASE ScriptStep
    BY <1>1, <2>3, ScriptMoves
    DEF ScriptCall, Stage, Push, Send, Partition, Heal, CatchUp, BeginDelivery, BeginShuffle,
        vars, nodeVars
  <2>4. CASE LoopStep
    <3>1. DeliveryStep /\ Held /\ ShortQueues
      BY <1>1, <2>4 DEF LoopStep, ProgramInv
    <3>2. running # "none" /\ graph'[n] \union Coming(n)' = graph[n] \union Coming(n)
      BY <2>1, <3>1, TurnsKeepEvents
    <3>3. Running /\ ~Finished
      BY <1>1, <3>2 DEF ProgramInv, BetweenRuns, Running
    <3>4. PICK s, seed, p : s = ThisRun.scenario /\ seed = ThisRun.seed /\ p = pc
      OBVIOUS
    <3>5. s \in Names /\ p \in Nat /\ NodesAt(s, seed, p) /\ DeliveryAt(s, seed, p)
      BY <1>1, <3>2, <3>3, <3>4, ThisRunIs DEF ProgramInv, OnTime, BetweenRuns
    <3>6. Arrived(s, p, n) = {}
      BY <1>1, <3>5, CutOffTime DEF NodesAt
    <3>7. graph[n] \union Coming(n) = {}
      BY <2>1, <3>5, <3>6, EventsOfOne DEF DeliveryAt
    <3> QED
      BY <3>2, <3>7
  <2>5. CASE Return
    BY <2>5 DEF Return, vars, nodeVars
  <2> QED
    BY <1>1, <2>2, <2>3, <2>4, <2>5 DEF ProgramNext
<1>2. ProgramInv /\ [ProgramNext]_allVars => [\A n \in partitioned : graph'[n] = graph[n]]_allVars
  BY <1>1
<1> QED
  BY <1>2, ProgramInvariance, PTL DEF ProgramSpec, CutOffGetsNothing

\* The seed of auto_frontier_reordered reaches the generator and goes no further: in
\* no run, of any seed, does a queue hold two messages, so no number is ever drawn.
THEOREM NothingIsShuffled == ProgramSpec => [](AtEnd => rng = New(Binary(ThisRun.seed)))
<1>1. ProgramInv => (AtEnd => rng = New(Binary(ThisRun.seed)))
  <2> SUFFICES ASSUME ProgramInv, AtEnd PROVE rng = New(Binary(ThisRun.seed))
    OBVIOUS
  <2>1. Running
    <3>1. Len(ThisScript) \in Nat
      BY ThisRunIs, StartingTime DEF AtEnd, ProgramInv, Follows
    <3> QED
      BY <3>1 DEF AtEnd, Running, ProgramInv, BetweenRuns
  <2> QED
    BY <2>1 DEF ProgramInv, RngUntouched
<1> QED
  BY <1>1, ProgramInvariance, PTL

\* What is proved of single calls holds of the program, run after run: types, a
\* generator that is not stuck, messages counted once, swaps within the queue.
THEOREM ProgramIsSafe == ProgramSpec => [](TypeOK /\ RngNeverZero /\ Accounted /\ SwapInBounds)
<1>1. ProgramInv => TypeOK /\ RngNeverZero /\ Accounted /\ SwapInBounds
  BY DrawsInBounds DEF ProgramInv, Held, Inv
<1> QED
  BY <1>1, ProgramInvariance, PTL
=============================================================================
