--------------------------- MODULE MCVideoReceiver ---------------------------
(* Instances of VideoReceiver for TLC.                                     *)
EXTENDS VideoReceiver
=============================================================================
