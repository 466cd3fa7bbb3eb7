------------------------------- MODULE MCTimer -------------------------------
(* Timer on a small instance. *)
EXTENDS Timer
=============================================================================
