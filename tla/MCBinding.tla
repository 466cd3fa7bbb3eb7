------------------------------ MODULE MCBinding ------------------------------
(* Binding on small instances. *)
EXTENDS Binding, TLC

=============================================================================
