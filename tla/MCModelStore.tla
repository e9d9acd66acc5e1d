----------------------------- MODULE MCModelStore -----------------------------
(* Small instances of ModelStore for TLC.  Bundles only meet in a checker,   *)
(* which holds one at a time, so one bundle shows every interleaving.        *)
EXTENDS ModelStore
===============================================================================
