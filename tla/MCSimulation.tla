---------------------------- MODULE MCSimulation ----------------------------
(* Instance of Simulation for TLC: the tasks are interchangeable.             *)
EXTENDS Simulation, TLC

TaskSymmetry == Permutations(Task)
=============================================================================
