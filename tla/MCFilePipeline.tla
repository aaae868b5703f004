---------------------------- MODULE MCFilePipeline ----------------------------
(***************************************************************************)
(* Small instances of FilePipeline for TLC.  Ids, processes and requests   *)
(* are interchangeable, so safety runs take their permutations as          *)
(* symmetries.                                                             *)
(***************************************************************************)
EXTENDS FilePipeline, TLC

Symmetry == Permutations(Tasks) \cup Permutations(Procs)
              \cup Permutations(Callbacks) \cup Permutations(Retries)
===============================================================================
