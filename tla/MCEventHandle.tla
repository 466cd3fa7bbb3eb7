---------------------------- MODULE MCEventHandle ----------------------------
(* EventHandle on small instances. *)
EXTENDS EventHandle
=============================================================================
