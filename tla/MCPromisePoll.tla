--------------------------- MODULE MCPromisePoll ---------------------------
(* One share with every combination of interval and timeout. *)
EXTENDS PromisePoll
=============================================================================
