---------------------------- MODULE MCNngHandler -----------------------------
(* NngHandler on a small instance, given by the cfg. *)
EXTENDS NngHandler
=============================================================================
