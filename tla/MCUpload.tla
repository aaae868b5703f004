-------------------------------- MODULE MCUpload --------------------------------
(***************************************************************************)
(* Upload on a small instance: uploads are interchangeable.                *)
(***************************************************************************)
EXTENDS Upload, TLC

Symmetry == Permutations(Requests)
===============================================================================
