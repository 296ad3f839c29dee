---------------------------- MODULE AncestryWalk ----------------------------
(***************************************************************************)
(* causally_precedes of task_model, one iteration of its loop per step.    *)
(* The stack is the set of ids still on it, taken in any order: the order  *)
(* in which an event's parents are pushed is not a property of the graph,  *)
(* and a second copy of an id is popped to no effect.                      *)
(***************************************************************************)
EXTENDS TaskModel

CONSTANTS Id,               \* the event ids, known or only cited
          AnyGraph          \* the graphs the walk may be given

IsGraph(H) == Ids(H) \subseteq Id /\ \A e \in H : e.parents \subseteq Id

ASSUME GraphsTyped == \A H \in AnyGraph : IsGraph(H)

VARIABLES G, ancestor, descendant,      \* the arguments
          frontier, visited,            \* the stack and the set of the walk
          answer                        \* "walking" until it returns

input == <<G, ancestor, descendant>>
vars == <<input, frontier, visited, answer>>

Init == /\ G \in AnyGraph
        /\ ancestor \in Id
        /\ descendant \in Id
        /\ frontier = {descendant}
        /\ visited = {}
        /\ answer = "walking"

\* `if !visited.insert(current) { continue; }`
SkipVisited(current) ==
  /\ answer = "walking"
  /\ current \in frontier \intersect visited
  /\ frontier' = frontier \ {current}
  /\ UNCHANGED <<input, visited, answer>>

\* A parent of the current event is the ancestor: `return true`.
Found(current) ==
  /\ answer = "walking"
  /\ current \in frontier \ visited
  /\ ancestor \in ParentsIn(G, {current})
  /\ answer' = "yes"
  /\ visited' = visited \union {current}
  /\ frontier' = frontier \ {current}
  /\ UNCHANGED input

\* Mutant: the visited set is consulted but never extended.
ExpandUnmarked(current) ==
  /\ answer = "walking"
  /\ current \in frontier \ visited
  /\ ancestor \notin ParentsIn(G, {current})
  /\ frontier' = (frontier \ {current}) \union ParentsIn(G, {current})
  /\ UNCHANGED <<input, visited, answer>>

\* Mutant: the parents of the current event replace the rest of the stack.
ExpandOverwrites(current) ==
  /\ answer = "walking"
  /\ current \in frontier \ visited
  /\ ancestor \notin ParentsIn(G, {current})
  /\ frontier' = ParentsIn(G, {current})
  /\ visited' = visited \union {current}
  /\ UNCHANGED <<input, answer>>

\* Mutant: the walk goes down to the children instead of up to the parents.
ExpandChildren(current) ==
  /\ answer = "walking"
  /\ current \in frontier \ visited
  /\ ancestor \notin ParentsIn(G, {current})
  /\ frontier' = (frontier \ {current}) \union Ids({e \in G : current \in e.parents})
  /\ visited' = visited \union {current}
  /\ UNCHANGED <<input, answer>>

\* None is: the parents of the current event, if it is known, are pushed.
Expand(current) ==
  /\ answer = "walking"
  /\ current \in frontier \ visited
  /\ ancestor \notin ParentsIn(G, {current})
  /\ frontier' = (frontier \ {current}) \union ParentsIn(G, {current})
  /\ visited' = visited \union {current}
  /\ UNCHANGED <<input, answer>>

\* The stack is empty: `false`.
Exhausted == /\ answer = "walking"
             /\ frontier = {}
             /\ answer' = "no"
             /\ UNCHANGED <<input, frontier, visited>>

Next == \/ \E current \in Id : SkipVisited(current) \/ Found(current) \/ Expand(current)
        \/ Exhausted

\* The loop runs until it returns; nothing else is scheduled meanwhile.
Spec == Init /\ [][Next]_vars /\ WF_vars(Next)

(* Properties ------------------------------------------------------------ *)

\* The arguments and the walk's variables have the declared shape; but for the
\* descendant it starts at, the walk holds ids that some known event cites.
TypeOK == /\ IsGraph(G)
          /\ ancestor \in Id
          /\ descendant \in Id
          /\ frontier \in SUBSET (Mentioned(G) \union {descendant})
          /\ visited \in SUBSET (Mentioned(G) \union {descendant})
          /\ answer \in {"walking", "yes", "no"}

\* The walk returns true exactly when the ancestor causally precedes the
\* descendant, on every graph: with dangling parents, diamonds and cycles.
WalkCorrect ==
  /\ answer = "yes" => Precedes(G, ancestor, descendant)
  /\ answer = "no" => ~Precedes(G, ancestor, descendant)

\* A path of n links in H, each from an event to a parent that it cites, written
\* from the oldest id to the youngest.
IsPath(H, p, n) == \A k \in 0 .. n - 1 : p[k] \in ParentsIn(H, {p[k + 1]})

\* No more links are ever needed than there are ids.
Reaches(H, old, young) ==
  \E n \in 1 .. Cardinality(Id) : \E p \in [0 .. n -> Id] :
    p[0] = old /\ p[n] = young /\ IsPath(H, p, n)

\* "directly or transitively through intermediate events" (task_model's doc of
\* causally_precedes, lib.rs:97-99): the least closed set that Precedes speaks
\* of is reachability along the parent links of the known events.
\* (A statement about the arguments alone: asked once per walk, at its start.)
PrecedesIsReachability ==
  visited = {} => (Precedes(G, ancestor, descendant) <=> Reaches(G, ancestor, descendant))

\* A bound on the turns the loop has still to make: as often as there are ids not
\* visited, the stack may be filled once more.
TurnsLeft == Cardinality(Id \ visited) * (Cardinality(Id) + 1) + Cardinality(frontier)

\* Until it returns, every turn of the loop lowers that bound: neither a cycle nor
\* the many paths of a lattice of diamonds can make it go round without progress.
WalkAdvances ==
  [][answer' = "walking" => TurnsLeft' \in 0 .. TurnsLeft - 1]_vars

\* The walk returns, even on a graph with a cycle, which insert would accept.
Termination == <>(answer # "walking")
=============================================================================
