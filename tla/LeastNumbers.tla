---------------------------- MODULE LeastNumbers ----------------------------
(***************************************************************************)
(* The least-number principle for sets of naturals: the only form of       *)
(* induction that the other proofs use.                                    *)
(***************************************************************************)
EXTENDS Integers, TLAPS, WellFoundedInduction

\* A set of naturals that is not empty has a least member.
THEOREM LeastNumber ==
  ASSUME NEW T, T \subseteq Nat, T # {}
  PROVE  \E low \in T : \A x \in T : low =< x
<1>1. PICK low \in T : \A x \in T : ~(<<x, low>> \in OpToRel(<, Nat))
  BY NatLessThanWellFounded, WFMin, Zenon
<1>2. \A x \in T : ~(x < low)
  BY <1>1, Zenon DEF OpToRel
<1> QED
  BY <1>2

\* A set that holds zero and the successors of its members holds every natural.
THEOREM InductiveSet ==
  ASSUME NEW T, 0 \in T, \A n \in Nat : n \in T => n + 1 \in T
  PROVE  Nat \subseteq T
<1> SUFFICES ASSUME Nat \ T # {} PROVE FALSE
  OBVIOUS
<1>1. PICK low \in Nat \ T : \A x \in Nat \ T : low =< x
  BY LeastNumber
<1>2. low - 1 \in Nat /\ low - 1 \notin Nat \ T
  BY <1>1
<1> QED
  BY <1>2
=============================================================================
