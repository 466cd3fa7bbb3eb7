--------------------------- MODULE MCRequestClient ---------------------------
(* RequestClient on a small instance. *)
EXTENDS RequestClient
=============================================================================
