----------------------------- MODULE TaskModel -----------------------------
(***************************************************************************)
(* task_model: the causal order of a graph, conflict detection and         *)
(* resolution, and the task state derived from them. These are pure        *)
(* functions of a CausalGraph. A graph is given here by its set of events  *)
(* alone, because its indexes are derived from them (CausalGraph.tla); a   *)
(* vector whose order cannot be observed is a set or a bag.                *)
(*                                                                         *)
(* An event is a record [id, kind, task, node, parents], where kind names  *)
(* the Operation variant and node is None for a Create.                    *)
(***************************************************************************)
EXTENDS Integers, FiniteSets, FiniteSetsExt

CONSTANT None               \* Rust's Option::None

Kind == {"Create", "Claim", "Complete"}

Ids(G) == {e.id : e \in G}

\* The parents cited by those events of G whose id is in S: an id that G does
\* not hold contributes nothing, and the walk stops there.
ParentsIn(G, S) == UNION {e.parents : e \in {f \in G : f.id \in S}}

Mentioned(G) == UNION {e.parents : e \in G}

\* S holds the ancestors in G of whatever it holds.
AncestorClosed(G, S) == ParentsIn(G, S) \subseteq S

\* Mutant: only a direct parent counts as an ancestor.
PrecedesDirectly(G, ancestor, descendant) == ancestor \in ParentsIn(G, {descendant})

\* What causally_precedes answers: the ancestor is in the least set that holds
\* the descendant's parents and, with an event of G, that event's parents.
\* AncestryWalk.tla models the walk itself and shows that this is its answer.
Precedes(G, ancestor, descendant) ==
  \A S \in SUBSET Mentioned(G) :
    ParentsIn(G, {descendant}) \subseteq S /\ AncestorClosed(G, S) => ancestor \in S

Concurrent(G, a, b) == ~Precedes(G, a, b) /\ ~Precedes(G, b, a)

\* Mutant: a conflict only if all of the events are concurrent.
HasConcurrentPairs(G, ids) == /\ Cardinality(ids) > 1
                              /\ \A a, b \in ids : a # b => Concurrent(G, a, b)

HasConcurrentPair(G, ids) == \E a, b \in ids : a # b /\ Concurrent(G, a, b)

Superseded(G, S, e) == \E other \in S : other.id # e.id /\ Precedes(G, e.id, other.id)

Maximal(G, S) == {e \in S : ~Superseded(G, S, e)}

\* Mutant: there is a winner only without a tie.
ResolveUnanimous(G, S) ==
  LET owners == {e.node : e \in Maximal(G, S)}
  IN  IF Cardinality(owners) # 1 THEN None ELSE Min(owners)

Resolve(G, S) ==
  LET owners == {e.node : e \in Maximal(G, S)}
  IN  IF owners = {} THEN None ELSE Min(owners)

ExtractTaskSubgraph(G, t) == {e \in G : e.task = t}

OfKind(G, kind, t) == {e \in ExtractTaskSubgraph(G, t) : e.kind = kind}

Claims(G, t) == OfKind(G, "Claim", t)
Completions(G, t) == OfKind(G, "Complete", t)

HasConflict(G, t) == \/ HasConcurrentPair(G, Ids(Claims(G, t)))
                     \/ HasConcurrentPair(G, Ids(Completions(G, t)))

\* The sorted vector of owners is a bag: how often each node occurs in it.
Owners(S) == [n \in {e.node : e \in S} |-> Cardinality({e \in S : e.node = n})]

DeriveTaskState(G, t) ==
  [exists             |-> OfKind(G, "Create", t) # {},
   claims             |-> Owners(Claims(G, t)),
   completions        |-> Owners(Completions(G, t)),
   has_conflict       |-> HasConflict(G, t),
   resolved_claimant  |-> Resolve(G, Claims(G, t)),
   resolved_completer |-> Resolve(G, Completions(G, t))]
=============================================================================
