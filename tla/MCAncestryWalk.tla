--------------------------- MODULE MCAncestryWalk ---------------------------
(***************************************************************************)
(* The walk over every graph on three ids, any of them known or not and    *)
(* with any parents (so dangling parents, self-loops and cycles are there), *)
(* and over every acyclic graph on four, which has the diamonds.           *)
(***************************************************************************)
EXTENDS AncestryWalk

MCId == 1 .. 4

Graphs(known, Cited(_)) ==
  {{[id |-> i, parents |-> f[i]] : i \in known} :
     f \in {g \in [known -> SUBSET MCId] : \A i \in known : g[i] \subseteq Cited(i)}}

MCAnyGraph == LET AnyOfThree(i) == 1 .. 3
                  Older(i) == 1 .. i - 1
              IN  UNION {Graphs(K, AnyOfThree) : K \in SUBSET (1 .. 3)}
                    \union UNION {Graphs(K, Older) : K \in SUBSET MCId}
=============================================================================
