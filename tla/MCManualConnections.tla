------------------------ MODULE MCManualConnections ------------------------
(* Instances of ManualConnections for TLC.                                 *)
EXTENDS ManualConnections
=============================================================================
