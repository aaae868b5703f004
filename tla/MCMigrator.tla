------------------------------ MODULE MCMigrator -------------------------------
(***************************************************************************)
(* A small instance of Migrator for TLC.  The symmetry is for runs of the  *)
(* invariants alone.                                                       *)
(***************************************************************************)
EXTENDS Migrator, TLC

Symmetry == Permutations(Procs)
===============================================================================
