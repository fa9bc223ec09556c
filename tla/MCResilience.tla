---------------------------- MODULE MCResilience ----------------------------
(* Two calls over one limited transport. *)
EXTENDS Resilience
=============================================================================
