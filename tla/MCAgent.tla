------------------------------ MODULE MCAgent ------------------------------
(* Instances of Agent for TLC: the threads' stamps are the values. *)
EXTENDS Agent

MCValues == Threads \X (1..MaxSets)
=============================================================================
