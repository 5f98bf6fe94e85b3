-------------------------- MODULE MCCommandClients --------------------------
(* An instance of CommandClients for TLC.                                  *)
EXTENDS CommandClients
=============================================================================
