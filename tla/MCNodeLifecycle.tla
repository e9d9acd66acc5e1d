---------------------------- MODULE MCNodeLifecycle ----------------------------
(* Small instances of NodeLifecycle for TLC.  Actors selects who takes part   *)
(* in a run: the full product of all actors is out of reach, and each run     *)
(* keeps the actors that write the state its properties read.                 *)
EXTENDS NodeLifecycle
===============================================================================
