-------------------------- MODULE MCCommandHandler ---------------------------
(* CommandHandler on small instances. *)
EXTENDS CommandHandler, TLC

=============================================================================
