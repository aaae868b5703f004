------------------------------- MODULE MCWebPage -------------------------------
(***************************************************************************)
(* WebPage on a small instance: pages of one row, two tasks.               *)
(***************************************************************************)
EXTENDS WebPage, TLC

CONSTANTS t1, t2
MCCreatedAt == t1 :> 1 @@ t2 :> 2
===============================================================================
