---------------------------- MODULE GrowOnlySet ----------------------------
(***************************************************************************)
(* What the causal graph promises its callers: "the graph's state is just  *)
(* a grow-only set of events" (crdt_core/src/causal_graph.rs:20-22), and a *)
(* merge is the atomic union of two such sets (causal_graph.rs:122-123).   *)
(***************************************************************************)
CONSTANTS Replica, Event

VARIABLE known

Init == known = [r \in Replica |-> {}]

Add(r, e) == known' = [known EXCEPT ![r] = @ \union {e}]

Join(r, s) == known' = [known EXCEPT ![r] = @ \union known[s]]

Next == \E r \in Replica : \/ \E e \in Event : Add(r, e)
                           \/ \E s \in Replica : Join(r, s)

Spec == Init /\ [][Next]_known
=============================================================================
