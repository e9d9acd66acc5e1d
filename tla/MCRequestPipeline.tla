-------------------------- MODULE MCRequestPipeline --------------------------
(* Small instances of the request pipeline for TLC. *)
EXTENDS RequestPipeline
===============================================================================
