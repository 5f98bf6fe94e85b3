----------------------- MODULE MCConnectionManagement -----------------------
(* Instances of ConnectionManagement for TLC.                              *)
EXTENDS ConnectionManagement
=============================================================================
