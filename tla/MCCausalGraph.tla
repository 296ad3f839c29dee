--------------------------- MODULE MCCausalGraph ---------------------------
(***************************************************************************)
(* A small instance of CausalGraph: a create, two claims that cite it, one *)
(* of them also citing an event that is never issued (the dangling parent  *)
(* of causal_graph.rs:88-90), and an event of a second task that has a     *)
(* parent in the first.                                                    *)
(***************************************************************************)
EXTENDS CausalGraph

CONSTANTS r1, r2, r3, t1, t2, i1, i2, i3, i4, i5

MCReplica == {r1, r2, r3}

MCEvent == {[id |-> i1, task |-> t1, parents |-> {}],
            [id |-> i2, task |-> t1, parents |-> {i1}],
            [id |-> i3, task |-> t1, parents |-> {i1, i5}],
            [id |-> i4, task |-> t2, parents |-> {i3}]}
=============================================================================
