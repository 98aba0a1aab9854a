---------------------------- MODULE MCTaskGraph -----------------------------
(* TaskGraph for TLC: the names of tasks are interchangeable.              *)
EXTENDS TaskGraph, TLC

TaskSymmetry == Permutations(Task)
=============================================================================
