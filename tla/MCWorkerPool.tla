----------------------------- MODULE MCWorkerPool -----------------------------
(***************************************************************************)
(* Small instances of WorkerPool for TLC.  The symmetry is for runs of the *)
(* invariants alone.                                                       *)
(***************************************************************************)
EXTENDS WorkerPool, TLC

Symmetry == Permutations(Tasks)
===============================================================================
