------------------------------- MODULE MCSwarm -------------------------------
(* Swarm.tla for TLC: every composition of a request, every model outcome. *)
EXTENDS Trace
=============================================================================
